---------------------------- MODULE Spec2Model ----------------------------
(***************************************************************************)
(* Model of the LangGraph flow of the Text2Cypher agentic system:          *)
(* orchestrator (router), refiner, text_to_cypher, web_search and answerer *)
(* nodes driven over one shared State by the compiled StateGraph.          *)
(*                                                                         *)
(* Texts (queries, LLM answers, environment values) are sequences of       *)
(* one-character strings, so that lower(), upper(), strip(), split() and   *)
(* the substring test `in` are computed the way Python computes them.      *)
(***************************************************************************)
EXTENDS Integers, Sequences, FiniteSets, TLC

\* Optional[T]: Python's None, or a value
None == [some |-> FALSE]
Some(v) == [some |-> TRUE, val |-> v]

(***************************************************************************)
(* Python str operations                                                   *)
(***************************************************************************)
UpperAlphabet == <<"A","B","C","D","E","F","G","H","I","J","K","L","M","N","O","P","Q","R","S","T","U","V","W","X","Y","Z">>
LowerAlphabet == <<"a","b","c","d","e","f","g","h","i","j","k","l","m","n","o","p","q","r","s","t","u","v","w","x","y","z">>
Whitespace == {" ", "\t", "\n"}

\* The position of c in alphabet, 0 when it does not occur
IndexIn(c, alphabet) ==
    IF \E i \in 1..Len(alphabet) : alphabet[i] = c
    THEN CHOOSE i \in 1..Len(alphabet) : alphabet[i] = c
    ELSE 0

Letters == { UpperAlphabet[i] : i \in 1..26 } \cup { LowerAlphabet[i] : i \in 1..26 }

LowerOf == [c \in Letters |-> IF IndexIn(c, UpperAlphabet) > 0
                               THEN LowerAlphabet[IndexIn(c, UpperAlphabet)] ELSE c]
UpperOf == [c \in Letters |-> IF IndexIn(c, LowerAlphabet) > 0
                               THEN UpperAlphabet[IndexIn(c, LowerAlphabet)] ELSE c]

LowerChar(c) == IF c \in Letters THEN LowerOf[c] ELSE c

UpperChar(c) == IF c \in Letters THEN UpperOf[c] ELSE c

\* str.lower()
Lower(s) == [i \in 1..Len(s) |-> LowerChar(s[i])]

\* str.upper()
Upper(s) == [i \in 1..Len(s) |-> UpperChar(s[i])]

\* `sub in s`
Contains(sub, s) ==
    \E i \in 0..(Len(s) - Len(sub)) :
        \A j \in 1..Len(sub) : s[i + j] = sub[j]

\* any(k in s for k in keywords)
ContainsAny(keywords, s) == \E k \in keywords : Contains(k, s)

\* str.strip()
Strip(s) ==
    IF \A i \in 1..Len(s) : s[i] \in Whitespace
    THEN << >>
    ELSE LET first == CHOOSE i \in 1..Len(s) :
                          /\ s[i] \notin Whitespace
                          /\ \A j \in 1..(i - 1) : s[j] \in Whitespace
             last  == CHOOSE i \in 1..Len(s) :
                          /\ s[i] \notin Whitespace
                          /\ \A j \in (i + 1)..Len(s) : s[j] \in Whitespace
         IN  SubSeq(s, first, last)

\* len(s.split()): the number of maximal runs of non-whitespace characters
WordCount(s) ==
    Cardinality({i \in 1..Len(s) :
                    /\ s[i] \notin Whitespace
                    /\ (i = 1 \/ s[i - 1] \in Whitespace)})

\* s.strip().endswith(suffix) for a one-character suffix
StripEndsWith(s, c) ==
    LET t == Strip(s) IN Len(t) > 0 /\ t[Len(t)] = c

\* s.split(sep) for a one-character separator: the pieces between separators
RECURSIVE SplitOn(_, _)
SplitOn(s, sep) ==
    IF \A i \in 1..Len(s) : s[i] /= sep
    THEN << s >>
    ELSE LET k == CHOOSE i \in 1..Len(s) :
                      s[i] = sep /\ \A j \in 1..(i - 1) : s[j] /= sep
         IN  << SubSeq(s, 1, k - 1) >> \o SplitOn(SubSeq(s, k + 1, Len(s)), sep)

\* Python truthiness of an Optional[str]: None and "" are falsy
Truthy(o) == o.some /\ o.val /= << >>

\* `a or b` for an Optional[str] a and a str b
OrText(a, b) == IF Truthy(a) THEN a.val ELSE b

(***************************************************************************)
(* Bounds of the model                                                     *)
(***************************************************************************)
\* Super-steps the graph executor runs before it gives up on a run that
\* has not reached END (GraphRecursionError).
RecursionLimit == 9

\* Times the router is invoked on one Context when it is exercised alone
MaxRouterRuns == 2

(***************************************************************************)
(* Inputs: user queries, port responses, environment                       *)
(***************************************************************************)
Queries ==
    { <<>>,
      <<"H","o","l","a">>,
      <<"g","r","a","c","i","a","s">>,
      <<"t","o","p">>,
      <<"t","o","p"," ","p","r","o","d","u","c","t","o","s">>,
      <<"c","l","i","m","a"," ","h","o","y">>,
      <<"q","u","e"," ","p","r","e","c","i","o"," ","t","i","e","n","e"," ","e","s","t","o","?">>,
      <<"e","l"," ","s","t","o","c","k"," ","d","e"," ","t","a","l","a","d","r","o","s"," ","e","n"," ","l","a"," ","t","i","e","n","d","a">>,
      <<"q","u","i","e","n"," ","g","a","n","o"," ","e","l"," ","m","u","n","d","i","a","l"," ","d","e"," ","f","u","t","b","o","l">> }

\* Texts the router is exercised on alone: every combination of length,
\* question mark, conversational marker and domain keyword
RouterTexts ==
    { <<>>,
      <<"h","o","l","a">>,
      <<"H","o","l","a">>,
      <<"g","r","a","c","i","a","s"," ","p","o","r"," ","t","o","d","o">>,
      <<"h","o","l","a"," ","s","t","o","c","k">>,
      <<"a","y","u","d","a"," ","c","o","n"," ","m","i"," ","p","e","d","i","d","o">>,
      <<"t","o","p">>,
      <<"t","o","p"," ","p","r","o","d","u","c","t","o","s">>,
      <<"s","t","o","c","k">>,
      <<"q","u","e"," ","p","r","e","c","i","o"," ","t","i","e","n","e"," ","e","s","t","o","?">>,
      <<"c","u","a","n","t","o"," ","c","u","e","s","t","a"," ","e","l"," ","e","n","v","i","o","?">>,
      <<"e","l"," ","m","e","j","o","r"," ","d","e"," ","t","o","d","o","s"," ","h","o","y">>,
      <<"c","l","i","m","a"," ","h","o","y">>,
      <<"q","u","e"," ","h","o","r","a"," ","e","s"," ","a","h","o","r","a","?">>,
      <<"q","u","i","e","n"," ","g","a","n","o"," ","e","l"," ","m","u","n","d","i","a","l"," ","d","e"," ","f","u","t","b","o","l">>,
      <<"d","i","m","e"," ","q","u","i","e","n"," ","g","a","n","o"," ","e","l"," ","m","u","n","d","i","a","l","?">>,
      <<"t","h","i","s"," ","w","e","e","k">> }

\* response["content"] of the classifier LLM
ClassifierContents ==
    { <<" ","t","e","x","t","_","t","o","_","c","y","p","h","e","r","\n">>, <<"W","E","B","_","S","E","A","R","C","H">>, <<"R","e","f","i","n","e","r">>, <<"A","N","S","W","E","R","E","R">>,
      <<"R","E","F","I","N","E"," ","o","r"," ","A","N","S","W","E","R">>,
      <<"a","n","s","w","e","r",","," ","w","e","b"," ","o","r"," ","c","y","p","h","e","r">>,
      <<"a","n","s","w","e","r","e","r"," ","r","e","f","i","n","e"," ","w","e","b">>, <<"n","o"," ","s","e">>, <<>> }

\* response content of the refiner LLM
RewriteContents ==
    { <<>>, <<" "," ">>, <<" ","L","i","s","t","a","r"," ","p","r","o","d","u","c","t","o","s"," ","c","o","n"," ","s","t","o","c","k"," ">>, <<"c","l","i","m","a"," ","d","e"," ","h","o","y"," ","e","n"," ","M","a","d","r","i","d">> }

\* values of the ALLOWED_TOPICS environment variable ("" when unset)
AllowedTopicsValues == { <<>>, <<" ",","," ">>, <<"P","r","o","d","u","c","t","o",","," ","s","t","o","c","k">> }

\* What is installed and configured in the process environment and read by
\* more than one node.
\*   graphiti       : graphiti_core (GeminiClient, LLMConfig) imports
\*   api_key        : LLM_API_KEY is set
\*   allowed_topics : the value of ALLOWED_TOPICS
\* What a single node reads is drawn where that node reads it:
\*   genai  : google.generativeai imports              (text_to_cypher)
\*   neo4j  : the neo4j package imports, NEO4J_URI set (text_to_cypher)
\*   google : GOOGLE_API_KEY is set                    (web_search)
Environments ==
    [ graphiti : BOOLEAN, api_key : BOOLEAN, allowed_topics : AllowedTopicsValues ]

(***************************************************************************)
(* Orchestrator (agents/orchestrator_agent.py)                             *)
(***************************************************************************)
MAX_REFINEMENTS == 2

Routes == {"refiner", "text_to_cypher", "web_search", "answerer"}

conversational_words ==
    { <<"h","o","l","a">>, <<"h","i">>, <<"h","e","l","l","o">>, <<"g","r","a","c","i","a","s">>, <<"t","h","a","n","k","s">>,
      <<"a","d","i","o_acute","s">>, <<"b","y","e">>, <<"a","y","u","d","a">>, <<"h","e","l","p">> }

\* db_keywords of seems_db_query
seems_db_keywords ==
    { <<"p","r","o","d","u","c","t","o">>, <<"p","r","o","d","u","c","t","o","s">>, <<"c","l","i","e","n","t","e">>, <<"c","l","i","e","n","t","e","s">>, <<"c","o","m","p","r","a">>,
      <<"c","o","m","p","r","a","s">>, <<"v","e","n","t","a">>, <<"v","e","n","t","a","s">>, <<"s","t","o","c","k">>, <<"i","n","v","e","n","t","a","r","i","o">>,
      <<"p","e","d","i","d","o">>, <<"p","e","d","i","d","o","s">>, <<"c","o","m","u","n","i","d","a","d">>, <<"c","o","m","u","n","i","d","a","d","e","s">>, <<"p","r","e","c","i","o">>,
      <<"p","r","e","c","i","o","s">> }

\* db_keywords of heuristic_route
heuristic_db_keywords ==
    seems_db_keywords \cup
    { <<"t","o","p">>, <<"m","e","j","o","r">>, <<"m","a","y","o","r">>, <<"m","e","n","o","r">>, <<"t","o","t","a","l">>, <<"c","a","n","t","i","d","a","d">>,
      <<"c","u","a","n","t","o">>, <<"c","u","a","n","t","o","s">> }

seems_db_query(query) == ContainsAny(seems_db_keywords, Lower(query))

is_vague_queryNoSuppression(query) ==
    \/ WordCount(query) <= 3
    \/ StripEndsWith(query, "?") /\ WordCount(query) <= 4
is_vague_query(query) ==
    IF WordCount(query) <= 3 /\ seems_db_query(query)
    THEN FALSE
    ELSE \/ WordCount(query) <= 3
         \/ StripEndsWith(query, "?") /\ WordCount(query) <= 4

heuristic_routeKeywordsFirst(query) ==
    IF ContainsAny(heuristic_db_keywords, Lower(query))
    THEN (IF is_vague_query(query) THEN "refiner" ELSE "text_to_cypher")
    ELSE IF WordCount(Strip(query)) <= 2 /\ ContainsAny(conversational_words, Lower(query))
    THEN "answerer"
    ELSE IF is_vague_query(query) THEN "refiner"
    ELSE "web_search"
heuristic_routeNoConversational(query) ==
    IF ContainsAny(heuristic_db_keywords, Lower(query))
    THEN (IF is_vague_query(query) THEN "refiner" ELSE "text_to_cypher")
    ELSE IF is_vague_query(query) THEN "refiner"
    ELSE "web_search"
heuristic_routeInlineVague(query) ==
    IF WordCount(Strip(query)) <= 2 /\ ContainsAny(conversational_words, Lower(query))
    THEN "answerer"
    ELSE IF ContainsAny(heuristic_db_keywords, Lower(query))
    THEN (IF WordCount(query) <= 3 THEN "refiner" ELSE "text_to_cypher")
    ELSE IF is_vague_query(query) THEN "refiner"
    ELSE "web_search"
heuristic_route(query) ==
    IF WordCount(Strip(query)) <= 2 /\ ContainsAny(conversational_words, Lower(query))
    THEN "answerer"
    ELSE IF ContainsAny(heuristic_db_keywords, Lower(query))
    THEN (IF is_vague_query(query) THEN "refiner" ELSE "text_to_cypher")
    ELSE IF is_vague_query(query) THEN "refiner"
    ELSE "web_search"

\* The loop guard of decide_route: no more refinement from this count on.
LoopGuardOff(iteration_count) == iteration_count > MAX_REFINEMENTS
LoopGuard(iteration_count) == iteration_count >= MAX_REFINEMENTS

\* The forced final decision under the loop guard.
LoopGuardDecisionHeuristic(query, refined_query) ==
    IF ContainsAny(heuristic_db_keywords, Lower(OrText(refined_query, query)))
    THEN "text_to_cypher" ELSE "web_search"
LoopGuardDecision(query, refined_query) ==
    IF seems_db_query(OrText(refined_query, query)) THEN "text_to_cypher" ELSE "web_search"

\* The classifier is consulted only when graphiti_core imported and a key is set.
ClassifierConfigured(env) == env.graphiti /\ env.api_key

\* Outcomes of client.generate_response in decide_route: a dict with content,
\* something that is no dict, or an exception.
ClassifierOutcomes ==
    { [kind |-> "dict", content |-> c] : c \in ClassifierContents }
    \cup { [kind |-> "other"], [kind |-> "raise"] }

\* Mapping of the LLM's word to a route; None when no label is found.
MapDecisionAnswerFirst(decision) ==
    IF Contains(<<"A","N","S","W","E","R","E","R">>, decision) \/ Contains(<<"A","N","S","W","E","R">>, decision)
    THEN Some("answerer")
    ELSE IF Contains(<<"R","E","F","I","N","E","R">>, decision) \/ Contains(<<"R","E","F","I","N","E">>, decision)
    THEN Some("refiner")
    ELSE IF Contains(<<"W","E","B","_","S","E","A","R","C","H">>, decision) \/ Contains(<<"W","E","B">>, decision)
    THEN Some("web_search")
    ELSE IF Contains(<<"T","E","X","T","_","T","O","_","C","Y","P","H","E","R">>, decision) \/ Contains(<<"C","Y","P","H","E","R">>, decision)
    THEN Some("text_to_cypher")
    ELSE None
MapDecision(decision) ==
    IF Contains(<<"T","E","X","T","_","T","O","_","C","Y","P","H","E","R">>, decision) \/ Contains(<<"C","Y","P","H","E","R">>, decision)
    THEN Some("text_to_cypher")
    ELSE IF Contains(<<"W","E","B","_","S","E","A","R","C","H">>, decision) \/ Contains(<<"W","E","B">>, decision)
    THEN Some("web_search")
    ELSE IF Contains(<<"R","E","F","I","N","E","R">>, decision) \/ Contains(<<"R","E","F","I","N","E">>, decision)
    THEN Some("refiner")
    ELSE IF Contains(<<"A","N","S","W","E","R","E","R">>, decision) \/ Contains(<<"A","N","S","W","E","R">>, decision)
    THEN Some("answerer")
    ELSE None

\* decide_route below the loop guard, given what the LLM call did.
ClassifiedRouteDefaultsToCypher(query_to_analyze, outcome) ==
    IF outcome.kind = "dict" /\ MapDecision(Upper(Strip(outcome.content))).some
    THEN MapDecision(Upper(Strip(outcome.content))).val
    ELSE "text_to_cypher"
ClassifiedRoute(query_to_analyze, outcome) ==
    IF outcome.kind = "raise"
    THEN heuristic_route(query_to_analyze)
    ELSE LET decision == IF outcome.kind = "dict"
                         THEN Upper(Strip(outcome.content)) ELSE << >>
         IN  IF MapDecision(decision).some
             THEN MapDecision(decision).val
             ELSE heuristic_route(query_to_analyze)

\* decide_route(query, refined_query, iteration_count); outcome is None
\* when the LLM is not called.
decide_route(env, query, refined_query, iteration_count, outcome) ==
    IF LoopGuard(iteration_count)
    THEN LoopGuardDecision(query, refined_query)
    ELSE LET query_to_analyze == IF Truthy(refined_query) THEN refined_query.val ELSE query
         IN  IF ~ClassifierConfigured(env)
             THEN heuristic_route(query_to_analyze)
             ELSE ClassifiedRoute(query_to_analyze, outcome.val)

\* Whether decide_route calls the LLM.
CallsClassifier(env, iteration_count) ==
    ~LoopGuard(iteration_count) /\ ClassifierConfigured(env)

\* allowed_tokens: the lowered, stripped, non-empty pieces of ALLOWED_TOPICS
AllowedTokens(allowed_topics_env) ==
    LET pieces == SplitOn(Strip(allowed_topics_env), ",")
    IN  { Lower(Strip(pieces[i])) : i \in { j \in 1..Len(pieces) : Strip(pieces[j]) /= << >> } }

\* q_to_check of the allowed-topic gate
QToCheckQueryOnly(query, refined_query) == Lower(query)
QToCheck(query, refined_query) == Lower(OrText(refined_query, query))

\* The allowed-topic gate fires: the route is text_to_cypher, ALLOWED_TOPICS
\* is set, and no allowed token occurs in the text.
OverrideFires(env, route, query, refined_query) ==
    /\ route = "text_to_cypher"
    /\ Strip(env.allowed_topics) /= << >>
    /\ ~ContainsAny(AllowedTokens(env.allowed_topics), QToCheck(query, refined_query))

(***************************************************************************)
(* Refiner (agents/refiner_agent.py)                                       *)
(***************************************************************************)
\* Outcomes of llm.generate_response in RefinerNode.run: a response whose
\* content is None or a text, or an exception.
RewriteOutcomes ==
    { [kind |-> "content", content |-> Some(c)] : c \in RewriteContents }
    \cup { [kind |-> "content", content |-> None], [kind |-> "raise"] }

\* The deterministic refinement of mock mode: f"(REFINED) {user_query.strip()}"
MockRefined(user_query) == <<"(","R","E","F","I","N","E","D",")"," ">> \o Strip(user_query)

\* RefinerNode._get_llm raises when the Gemini client did not import.
RefinerLlmMissing(env) == ~env.graphiti

(***************************************************************************)
(* Text2Cypher (agents/text2cypher_agent.py)                               *)
(***************************************************************************)
Digits == <<"0","1","2","3","4","5","6","7","8","9">>
IsDigit(c) == IndexIn(c, Digits) > 0
IsLetter(c) == c \in Letters

NO_CYPHER == <<"N","O","_","C","Y","P","H","E","R">>

\* s[i..] starts with lit
StartsAt(lit, s, i) ==
    /\ i >= 1
    /\ i + Len(lit) - 1 <= Len(s)
    /\ \A j \in 1..Len(lit) : s[i + j - 1] = lit[j]

\* The position after the longest run of characters of set cs starting at i
RunEnd(s, i, cs) ==
    IF \E k \in i..Len(s) : s[k] \notin cs
    THEN CHOOSE k \in i..Len(s) : s[k] \notin cs /\ \A j \in i..(k - 1) : s[j] \in cs
    ELSE Len(s) + 1

\* The position after the longest run of characters satisfying IsDigit
DigitsEnd(s, i) ==
    IF \E k \in i..Len(s) : ~IsDigit(s[k])
    THEN CHOOSE k \in i..Len(s) : ~IsDigit(s[k]) /\ \A j \in i..(k - 1) : IsDigit(s[j])
    ELSE Len(s) + 1

\* int(text) of a run of digits
RECURSIVE ParseInt(_)
ParseInt(ds) ==
    IF ds = << >> THEN 0
    ELSE 10 * ParseInt(SubSeq(ds, 1, Len(ds) - 1)) + (IndexIn(ds[Len(ds)], Digits) - 1)

\* str(n) of a natural number
RECURSIVE FormatInt(_)
FormatInt(n) ==
    IF n < 10 THEN << Digits[n + 1] >>
    ELSE FormatInt(n \div 10) \o << Digits[(n % 10) + 1] >>

\* str.strip(chars)
StripChars(s, cs) ==
    IF \A i \in 1..Len(s) : s[i] \in cs
    THEN << >>
    ELSE LET first == CHOOSE i \in 1..Len(s) :
                          s[i] \notin cs /\ \A j \in 1..(i - 1) : s[j] \in cs
             last  == CHOOSE i \in 1..Len(s) :
                          s[i] \notin cs /\ \A j \in (i + 1)..Len(s) : s[j] \in cs
         IN  SubSeq(s, first, last)

\* Characters the captured product name of the stock rule may not contain
StockExcluded == {"?", ".", "'"}

\* \s+['"]?([^\?\.'']+) from position p: where the captured group starts,
\* 0 when this tail of the pattern does not match.
StockTailStart(q, p) ==
    IF p > Len(q) \/ q[p] \notin Whitespace
    THEN 0
    ELSE LET r == RunEnd(q, p, Whitespace)
         IN  IF r + 1 <= Len(q) /\ q[r] \in {"'", "\""} /\ q[r + 1] \notin StockExcluded
             THEN r + 1
             ELSE IF r <= Len(q) /\ q[r] \notin StockExcluded
             THEN r
             ELSE IF r - p >= 2 THEN r - 1
             ELSE 0

\* (?:\s+del|\s+de\s+la|\s+de)? from position p: the positions after the
\* optional group, in the order the regex engine tries them.
StockGroupEnds(q, p) ==
    LET w1 == IF p <= Len(q) /\ q[p] \in Whitespace THEN RunEnd(q, p, Whitespace) ELSE 0
        del == IF w1 > 0 /\ StartsAt(<<"d","e","l">>, q, w1) THEN << w1 + 3 >> ELSE << >>
        de == w1 > 0 /\ StartsAt(<<"d","e">>, q, w1)
        w2 == IF de /\ w1 + 2 <= Len(q) /\ q[w1 + 2] \in Whitespace
              THEN RunEnd(q, w1 + 2, Whitespace) ELSE 0
        dela == IF w2 > 0 /\ StartsAt(<<"l","a">>, q, w2) THEN << w2 + 2 >> ELSE << >>
        deOnly == IF de THEN << w1 + 2 >> ELSE << >>
    IN  del \o dela \o deOnly \o << p >>

\* Where group 1 of the stock rule starts when "stock" is matched at i; 0 if none.
StockCaptureStartAt(q, i) ==
    IF ~StartsAt(<<"s","t","o","c","k">>, q, i) THEN 0
    ELSE LET ends == StockGroupEnds(q, i + 5)
             ok == { k \in 1..Len(ends) : StockTailStart(q, ends[k]) > 0 }
         IN  IF ok = {} THEN 0
             ELSE StockTailStart(q, ends[CHOOSE k \in ok : \A k2 \in ok : k <= k2])

\* re.search of the stock rule: the captured group of the leftmost match
StockRuleMatches(q) == \E i \in 1..Len(q) : StockCaptureStartAt(q, i) > 0
StockRuleGroup(q) ==
    LET i == CHOOSE i \in 1..Len(q) :
                 /\ StockCaptureStartAt(q, i) > 0
                 /\ \A j \in 1..(i - 1) : StockCaptureStartAt(q, j) = 0
        c == StockCaptureStartAt(q, i)
    IN  SubSeq(q, c, RunEnd(q, c, { q[k] : k \in 1..Len(q) } \ StockExcluded) - 1)

\* lit1 \s+ (\d+) \s+ lit2 matched at i: the digits, << >> if no match;
\* lit2 may be empty ("stock mayor a" \s+ digits has no tail)
NumberRuleAt(q, i, lit1, lit2) ==
    IF ~StartsAt(lit1, q, i) THEN << >>
    ELSE LET p == i + Len(lit1)
             d == IF p <= Len(q) /\ q[p] \in Whitespace THEN RunEnd(q, p, Whitespace) ELSE 0
             e == IF d > 0 THEN DigitsEnd(q, d) ELSE 0
         IN  IF d = 0 \/ e = d THEN << >>
             ELSE IF lit2 = << >> THEN SubSeq(q, d, e - 1)
             ELSE IF /\ e <= Len(q) /\ q[e] \in Whitespace
                     /\ StartsAt(lit2, q, RunEnd(q, e, Whitespace))
                  THEN SubSeq(q, d, e - 1)
                  ELSE << >>

NumberRuleMatches(q, lit1, lit2) == \E i \in 1..Len(q) : NumberRuleAt(q, i, lit1, lit2) /= << >>
NumberRuleGroup(q, lit1, lit2) ==
    NumberRuleAt(q, CHOOSE i \in 1..Len(q) :
                        /\ NumberRuleAt(q, i, lit1, lit2) /= << >>
                        /\ \A j \in 1..(i - 1) : NumberRuleAt(q, j, lit1, lit2) = << >>,
                 lit1, lit2)

\* The narrow rule-based fallbacks of generate_cypher when no LLM is configured.
\* (Every text the second rule matches is matched by the first, which is
\* tried before it.)
RuleBasedCypher(query) ==
    LET qlow == Lower(query)
    IN  IF StockRuleMatches(qlow)
        THEN <<"M","A","T","C","H"," ","(","p",":","P","r","o","d","u","c","t","o"," ","{","n","o","m","b","r","e",":"," ","'">>
             \o StripChars(Strip(StockRuleGroup(qlow)), {" ", "\"", "'"})
             \o <<"'","}",")"," ","R","E","T","U","R","N"," ","p",".","s","t","o","c","k"," ","A","S"," ","s","t","o","c","k"," ","L","I","M","I","T"," ","1">>
        ELSE IF NumberRuleMatches(qlow, <<"s","t","o","c","k"," ","m","a","y","o","r"," ","a">>, << >>)
        THEN <<"M","A","T","C","H"," ","(","p",":","P","r","o","d","u","c","t","o",")"," ","W","H","E","R","E"," ","p",".","s","t","o","c","k"," ",">"," ">>
             \o FormatInt(ParseInt(NumberRuleGroup(qlow, <<"s","t","o","c","k"," ","m","a","y","o","r"," ","a">>, << >>)))
             \o <<" ","R","E","T","U","R","N"," ","p",".","n","o","m","b","r","e"," ","A","S"," ","n","o","m","b","r","e",","," ","p",".","s","t","o","c","k"," ","A","S"," ","s","t","o","c","k"," ","L","I","M","I","T"," ","1","0">>
        ELSE IF NumberRuleMatches(qlow, <<"p","r","i","m","e","r","o","s">>, <<"p","r","o","d","u","c","t","o","s">>)
        THEN <<"M","A","T","C","H"," ","(","p",":","P","r","o","d","u","c","t","o",")"," ","R","E","T","U","R","N"," ","p",".","n","o","m","b","r","e"," ","A","S"," ","n","o","m","b","r","e",","," ","p",".","s","t","o","c","k"," ","A","S"," ","s","t","o","c","k"," ","L","I","M","I","T"," ">>
             \o FormatInt(ParseInt(NumberRuleGroup(qlow, <<"p","r","i","m","e","r","o","s">>, <<"p","r","o","d","u","c","t","o","s">>)))
        ELSE NO_CYPHER

\* _get_llm() of text2cypher_agent: google.generativeai and a key
CypherLlmConfigured(env, genai) == genai /\ env.api_key

\* _get_driver(): the neo4j package and NEO4J_URI
DriverAvailable(neo4j) == neo4j

\* response.text of the Cypher LLM
RawCyphers ==
    { <<"N","O","_","C","Y","P","H","E","R">>, <<"backtick","backtick","backtick","c","y","p","h","e","r","\n","M","A","T","C","H"," ","(","p",":","P","r","o","d","u","c","t","o",")"," ","R","E","T","U","R","N"," ","p","\n","backtick","backtick","backtick">>,
      <<" ","M","A","T","C","H"," ","(","c",":","C","l","i","e","n","t","e",")"," ","R","E","T","U","R","N"," ","c"," ">>, <<>> }

\* Outcomes of llm.generate_content_async: a response text, or an exception
CypherLlmOutcomes ==
    { [kind |-> "text", text |-> t] : t \in RawCyphers } \cup { [kind |-> "raise"] }

\* generate_cypher(query) with an LLM: raw = response.text.strip()
\* generate_cypher(query) without one: the rule-based fallback
generate_cypher(env, genai, query, outcome) ==
    IF CypherLlmConfigured(env, genai) THEN Strip(outcome.val.text) ELSE RuleBasedCypher(query)

\* re.sub(r"```[a-zA-Z]*", "", raw)
RECURSIVE RemoveFences(_)
RemoveFences(s) ==
    IF ~\E i \in 1..Len(s) : StartsAt(<<"backtick","backtick","backtick">>, s, i)
    THEN s
    ELSE LET i == CHOOSE i \in 1..Len(s) :
                      /\ StartsAt(<<"backtick","backtick","backtick">>, s, i)
                      /\ \A j \in 1..(i - 1) : ~StartsAt(<<"backtick","backtick","backtick">>, s, j)
             e == IF \E k \in (i + 3)..Len(s) : ~IsLetter(s[k])
                  THEN CHOOSE k \in (i + 3)..Len(s) :
                           ~IsLetter(s[k]) /\ \A j \in (i + 3)..(k - 1) : IsLetter(s[j])
                  ELSE Len(s) + 1
         IN  SubSeq(s, 1, i - 1) \o RemoveFences(SubSeq(s, e, Len(s)))

\* str.replace(old, "")
RECURSIVE RemoveAll(_, _)
RemoveAll(s, old) ==
    IF ~\E i \in 1..Len(s) : StartsAt(old, s, i)
    THEN s
    ELSE LET i == CHOOSE i \in 1..Len(s) :
                      /\ StartsAt(old, s, i)
                      /\ \A j \in 1..(i - 1) : ~StartsAt(old, s, j)
         IN  SubSeq(s, 1, i - 1) \o RemoveAll(SubSeq(s, i + Len(old), Len(s)), old)

clean_cypher(raw) == Strip(RemoveAll(RemoveFences(raw), <<"backtick","backtick","backtick">>))

\* Rows a successful run_cypher returns
ResultRows == { << >>, << "row1", "row2" >> }

\* str(e) of the exceptions run_cypher may raise; an exception constructed
\* without arguments has the empty text
StoreFailures == { "", "Neo4j query failed" }

\* Outcomes of run_cypher(cypher) with a driver: rows, or an exception
\* whose str() is the message
StoreOutcomes ==
    { [kind |-> "rows", rows |-> r] : r \in ResultRows }
    \cup { [kind |-> "raise", message |-> m] : m \in StoreFailures }

NoLlmCypherError ==
    "No se pudo generar un Cypher valido: LLM no configurado (ver LLM_API_KEY o instalacion del cliente)."
NoCypherError == "No se pudo generar un Cypher valido para esta pregunta."
DriverNote == "Neo4j driver not available; cypher returned without execution."
NoLlmNote == "LLM not configured; minimal rule-based fallback may have been used."

\* The cypher_result Text2CypherNode.run records for a cleaned cypher
CypherResultDropsQueryOnFailure(env, genai, neo4j, cypher, store) ==
    IF cypher = NO_CYPHER
    THEN [error |-> IF ~CypherLlmConfigured(env, genai) THEN NoLlmCypherError ELSE NoCypherError]
    ELSE IF ~DriverAvailable(neo4j)
    THEN [cypher |-> cypher, results |-> << >>,
          note |-> IF ~CypherLlmConfigured(env, genai)
                   THEN << DriverNote, NoLlmNote >> ELSE << DriverNote >>]
    ELSE IF store.val.kind = "rows"
    THEN [cypher |-> cypher, results |-> store.val.rows]
    ELSE [error |-> store.val.message]
CypherResult(env, genai, neo4j, cypher, store) ==
    IF cypher = NO_CYPHER
    THEN [error |-> IF ~CypherLlmConfigured(env, genai) THEN NoLlmCypherError ELSE NoCypherError]
    ELSE IF ~DriverAvailable(neo4j)
    THEN [cypher |-> cypher, results |-> << >>,
          note |-> IF ~CypherLlmConfigured(env, genai)
                   THEN << DriverNote, NoLlmNote >> ELSE << DriverNote >>]
    ELSE IF store.val.kind = "rows"
    THEN [cypher |-> cypher, results |-> store.val.rows]
    ELSE [cypher |-> cypher, error |-> store.val.message]

(***************************************************************************)
(* Web search (agents/web_search_agent.py)                                 *)
(***************************************************************************)
\* A text of n one-letter words that is one sentence: "a a ... a."
RECURSIVE WordsText(_)
WordsText(n) == IF n <= 1 THEN <<"a", ".">> ELSE <<"a", " ">> \o WordsText(n - 1)

\* Items _search_with_google returns (it returns [] on any failure)
SearchResults ==
    { << >>,
      << [title |-> <<"t","3">>, url |-> <<"h","t","t","p","s",":","/","/","e","x","a","m","p","l","e",".","c","o","m","/","3">>, content |-> WordsText(51)] >>,
      << [title |-> <<"t","1">>, url |-> <<"h","t","t","p","s",":","/","/","e","x","a","m","p","l","e",".","c","o","m","/","1">>, content |-> <<"U","n","o"," ","d","o","s","."," ","T","r","e","s",".">>],
         [title |-> <<"t","2">>, url |-> << >>, content |-> << >>] >> }

\* WebSearchNode.run(inputs): the response dict. Without GOOGLE_API_KEY the
\* concatenation "api key:" + None raises TypeError inside the try block;
\* with it, the results are those of Google, [] when GOOGLE_CX is missing.
WebSearchRun(google, question, results) ==
    IF question = << >>
    THEN [question |-> None, results |-> << >>, result_count |-> 0,
          success |-> FALSE, error |-> Some("missing 'query' in inputs")]
    ELSE IF ~google
    THEN [question |-> Some(question), results |-> << >>, result_count |-> 0,
          success |-> FALSE, error |-> Some("TypeError")]
    ELSE [question |-> Some(question), results |-> results, result_count |-> Len(results),
          success |-> TRUE, error |-> None]

(***************************************************************************)
(* Answerer (agents/answerer_agent.py)                                     *)
(***************************************************************************)
\* AnswererNode._get_llm(): a client only when graphiti_core and a key exist
AnswerLlmConfigured(env) == env.graphiti /\ env.api_key

\* response["content"] of the answer LLM
AnswerContents == { <<>>, <<" ">>, <<"H","a","y"," ","t","r","e","s"," ","p","r","o","d","u","c","t","o","s",".">>, <<"H","e"," ","e","n","c","o","n","t","r","a","d","o"," ","2"," ","r","e","s","u","l","t","a","d","o","s",".">>,
                    WordsText(41), WordsText(61) }

\* Outcomes of llm.generate_response in the answerer: content, or an
\* exception (which every formatter catches)
AnswerLlmOutcomes ==
    { [kind |-> "content", content |-> c] : c \in AnswerContents } \cup { [kind |-> "raise"] }

\* Pieces of a formatted answer (their concatenation is the answer)
Str(s) == [str |-> s]
Num(n) == [num |-> n]
Text(t) == [text |-> t]
Rows(r) == [rows |-> r]

\* The branch AnswererNode.run takes, in its order of tests
AnswerBranch(st) ==
    IF st.error.some THEN "error"
    ELSE IF st.cypher_result.some THEN "cypher"
    ELSE IF st.web_result.some THEN "web"
    ELSE "conversational"

\* cypher_result.get("error") is truthy: the key is there and its text is
\* not empty
CypherResultHasError(cypher_result) ==
    "error" \in DOMAIN cypher_result /\ cypher_result.error /= ""

\* _format_cypher_response(query, cypher_result); the answer LLM's content
\* is returned stripped
FormatCypherResponse(env, cypher_result, outcome) ==
    LET has_error == CypherResultHasError(cypher_result)
        results == IF "results" \in DOMAIN cypher_result THEN cypher_result.results ELSE << >>
    IN  IF has_error
        THEN [variant |-> "cypher_failed",
              parts |-> << Str("No pude ejecutar la consulta en la base de datos: "),
                           Str(cypher_result.error) >>]
        ELSE IF ~AnswerLlmConfigured(env)
        THEN IF results = << >>
             THEN [variant |-> "no_rows",
                   parts |-> << Str("No se encontraron resultados en la base de datos para tu consulta.") >>]
             ELSE [variant |-> "rows",
                   parts |-> << Str("Encontre "), Num(Len(results)),
                                Str(" resultado(s) en la base de datos. Resultados: "), Rows(results) >>]
        ELSE IF outcome.val.kind = "raise"
        THEN IF results = << >>
             THEN [variant |-> "no_rows",
                   parts |-> << Str("No se encontraron resultados en la base de datos.") >>]
             ELSE [variant |-> "rows",
                   parts |-> << Str("Encontre "), Num(Len(results)), Str(" resultado(s): "), Rows(results), Str("...") >>]
        ELSE IF Strip(outcome.val.content) /= << >>
        THEN [variant |-> "llm", parts |-> << Text(Strip(outcome.val.content)) >>]
        ELSE [variant |-> "llm_empty",
              parts |-> << Str("Procese tu consulta pero no pude generar una respuesta adecuada.") >>]

\* Characters after which re.split(r'(?<=[.!?])\s+', ...) splits
SentenceEnders == {".", "!", "?"}

\* re.split(r'(?<=[.!?])\s+', s): the pieces between the whitespace runs
\* that follow a sentence ender
RECURSIVE SplitSentences(_)
SplitSentences(s) ==
    LET cut(i) == s[i] \in Whitespace /\ s[i - 1] \in SentenceEnders
    IN  IF ~\E i \in 2..Len(s) : cut(i)
        THEN << s >>
        ELSE LET k == CHOOSE i \in 2..Len(s) : cut(i) /\ \A j \in 2..(i - 1) : ~cut(j)
             IN  << SubSeq(s, 1, k - 1) >>
                 \o SplitSentences(SubSeq(s, RunEnd(s, k, Whitespace), Len(s)))

\* s.split(): the maximal runs of non-whitespace characters
RECURSIVE SplitWords(_)
SplitWords(s) ==
    LET t == Strip(s)
    IN  IF t = << >>
        THEN << >>
        ELSE LET e == IF \E k \in 1..Len(t) : t[k] \in Whitespace
                      THEN CHOOSE k \in 1..Len(t) :
                               t[k] \in Whitespace /\ \A j \in 1..(k - 1) : t[j] \notin Whitespace
                      ELSE Len(t) + 1
             IN  << SubSeq(t, 1, e - 1) >> \o SplitWords(SubSeq(t, e, Len(t)))

\* ' '.join(pieces)
RECURSIVE JoinSpace(_)
JoinSpace(pieces) ==
    IF pieces = << >> THEN << >>
    ELSE IF Len(pieces) = 1 THEN pieces[1]
    ELSE pieces[1] \o <<" ">> \o JoinSpace(Tail(pieces))

\* seq[:n]
Take(seq, n) == SubSeq(seq, 1, IF Len(seq) < n THEN Len(seq) ELSE n)

\* _shorten_text(text, max_sentences, max_words)
shorten_text(text, max_sentences, max_words) ==
    IF text = << >>
    THEN << >>
    ELSE LET brief == Strip(JoinSpace(Take(SplitSentences(Strip(text)), max_sentences)))
             words == SplitWords(brief)
         IN  IF Len(words) > max_words
             THEN JoinSpace(Take(words, max_words)) \o <<".",".",".">>
             ELSE brief

\* urlparse(url).netloc for the URLs of the model: what stands between
\* "//" and the next "/", nothing when the URL has no "//"
Netloc(url) ==
    IF ~\E i \in 1..Len(url) : StartsAt(<<"/","/">>, url, i)
    THEN << >>
    ELSE LET i == CHOOSE i \in 1..Len(url) :
                      /\ StartsAt(<<"/","/">>, url, i)
                      /\ \A j \in 1..(i - 1) : ~StartsAt(<<"/","/">>, url, j)
         IN  SubSeq(url, i + 2, RunEnd(url, i + 2, { url[k] : k \in 1..Len(url) } \ {"/", "?", "#"}) - 1)

\* The words the two patterns of _synthesize_summary look for (matched
\* ignoring case): no text without one of them matches either pattern
WinnerWords ==
    { <<"e","l"," ","c","a","m","p","e","o_acute","n"," ","f","u","e">>,
      <<"g","a","n","o_acute">>, <<"v","e","n","c","i","o_acute">>,
      <<"d","e","r","r","o","t","o_acute">> }

InsufficientSummary ==
    "No se encontro informacion suficiente en las fuentes para generar un resumen conciso."

\* candidates[0] of _synthesize_summary: the stripped content, else the
\* stripped title, of the first result that has one of them
FirstCandidate(results) ==
    LET cand(r) == IF Strip(r.content) /= << >> THEN Strip(r.content) ELSE Strip(r.title)
        has == { i \in 1..Len(results) : cand(results[i]) /= << >> }
    IN  IF has = {} THEN << >>
        ELSE cand(results[CHOOSE i \in has : \A j \in has : i <= j])

\* _synthesize_summary(results, query)
synthesize_summary(results, query) ==
    IF results = << >>
    THEN [variant |-> "insufficient", parts |-> << Str(InsufficientSummary) >>]
    ELSE LET text == FirstCandidate(results)
             brief == Strip(JoinSpace(Take(SplitSentences(Strip(text)), 2)))
             source == Netloc(results[1].url)
         IN  IF ContainsAny(WinnerWords, Lower(text))
             THEN [variant |-> "winner", parts |-> << Str("gano la Copa Mundial de Futbol") >>]
             ELSE IF brief = << >>
             THEN [variant |-> "insufficient", parts |-> << Str(InsufficientSummary) >>]
             ELSE [variant |-> "synthesized",
                   parts |-> << Text(IF source /= << >>
                                     THEN shorten_text(brief, 2, 50)
                                          \o <<" ","F","u","e","n","t","e",":"," ">> \o source \o <<".">>
                                     ELSE shorten_text(brief, 2, 50)) >>]

\* WEB_SEARCH_DOMAINS as the answerer reads it: unset, or set to domains
\* that none of the URLs of SearchResults belongs to
WebSearchDomains == BOOLEAN

\* The values of WEB_SEARCH_DOMAINS that AnswererNode.run can tell apart on
\* state st: _format_web_response tests the variable only without an LLM
WebSearchDomainsRead(env, st) ==
    IF AnswerBranch(st) = "web" /\ ~AnswerLlmConfigured(env) THEN WebSearchDomains ELSE {FALSE}

\* web_result.get("_filtered_by_domain") is False
FilteredByDomainIsFalse(web_result) ==
    /\ "_filtered_by_domain" \in DOMAIN web_result
    /\ web_result["_filtered_by_domain"] = FALSE

\* _format_web_response(query, web_result)
FormatWebResponse(env, web_domains, query, web_result, outcome) ==
    IF ~web_result.success
    THEN [variant |-> "search_failed",
          parts |-> << Str("No pude realizar la busqueda web: "),
                       Str(IF web_result.error.some THEN web_result.error.val ELSE "Error desconocido") >>]
    ELSE IF web_result.results = << >>
    THEN [variant |-> "nothing_found",
          parts |-> << Str("No encontre informacion relevante en la web sobre '"), Text(query), Str("'.") >>]
    ELSE IF ~AnswerLlmConfigured(env)
    THEN IF web_domains /\ FilteredByDomainIsFalse(web_result)
         THEN [variant |-> "outside_domains",
               parts |-> << Str("Lo siento, esto no forma parte de mi dominio y no puedo responder.") >>]
         ELSE IF /\ env.allowed_topics /= << >>
            /\ ~ContainsAny(AllowedTokens(env.allowed_topics), Lower(query))
         THEN [variant |-> "out_of_domain",
               parts |-> << Str("Lo siento, esto no forma parte de mi dominio y no puedo responder.") >>]
         ELSE synthesize_summary(web_result.results, query)
    ELSE IF outcome.val.kind = "content"
    THEN LET brief == shorten_text(Strip(outcome.val.content), 2, 60)
         IN  IF /\ brief /= << >>
                /\ ~StartsAt(<<"h","e"," ","e","n","c","o","n","t","r","a","d","o">>, Lower(brief), 1)
             THEN [variant |-> "llm", parts |-> << Text(brief) >>]
             ELSE synthesize_summary(web_result.results, query)
    ELSE synthesize_summary(web_result.results, query)

\* Word characters of the regular-expression boundary \b
IsWordChar(c) == IsLetter(c) \/ IsDigit(c) \/ c = "_" \/ c = "i_acute" \/ c = "o_acute"

greeting_words ==
    { <<"h","o","l","a">>, <<"b","u","e","n","o","s"," ","d","i","a","s">>, <<"b","u","e","n","o","s"," ","d","i_acute","a","s">>,
      <<"b","u","e","n","a","s"," ","t","a","r","d","e","s">>, <<"b","u","e","n","a","s"," ","n","o","c","h","e","s">>, <<"h","i">>, <<"h","e","l","l","o">> }

\* re.match(r"^\s*(hola|buenos d[ií]as|...|hi|hello)\b", query, re.I)
GreetingMatch(query) ==
    LET q == Lower(query)
        p == RunEnd(q, 1, Whitespace)
    IN  \E w \in greeting_words :
            /\ StartsAt(w, q, p)
            /\ (p + Len(w) > Len(q) \/ ~IsWordChar(q[p + Len(w)]))

\* _format_conversational_response(query)
FormatConversationalResponse(env, query, outcome) ==
    IF GreetingMatch(query) \/ ~AnswerLlmConfigured(env)
    THEN IF env.allowed_topics /= << >>
         THEN [variant |-> "greeting_topics",
               parts |-> << Str("Hola, soy tu asistente. Puedo ayudar con consultas relacionadas con los siguientes temas: "),
                            Text(env.allowed_topics) >>]
         ELSE [variant |-> "greeting",
               parts |-> << Str("Hola, soy tu asistente. Puedo ayudarte con consultas sobre productos, inventario y compras de e-commerce.") >>]
    ELSE IF outcome.val.kind = "raise"
    THEN [variant |-> "llm_failed",
          parts |-> << Str("Hola, soy tu asistente. Puedo ayudarte con consultas sobre e-commerce o busquedas web.") >>]
    ELSE IF Strip(outcome.val.content) /= << >>
    THEN [variant |-> "llm", parts |-> << Text(Strip(outcome.val.content)) >>]
    ELSE [variant |-> "llm_empty", parts |-> << Str("En que puedo ayudarte hoy?") >>]

\* Whether AnswererNode.run calls the answer LLM for this state
AnswerCallsLlm(env, st) ==
    /\ AnswerLlmConfigured(env)
    /\ CASE AnswerBranch(st) = "error" -> FALSE
         [] AnswerBranch(st) = "cypher" -> ~CypherResultHasError(st.cypher_result.val)
         [] AnswerBranch(st) = "web" ->
                st.web_result.val.success /\ st.web_result.val.results /= << >>
         [] OTHER -> ~GreetingMatch(st.query)

\* The final_answer AnswererNode.run writes
FinalAnswer(env, web_domains, st, outcome) ==
    LET branch == AnswerBranch(st)
        body == CASE branch = "error" ->
                       [variant |-> "apology",
                        parts |-> << Str("Lo siento, ocurrio un error: "), Str(st.error.val) >>]
                  [] branch = "cypher" -> FormatCypherResponse(env, st.cypher_result.val, outcome)
                  [] branch = "web" -> FormatWebResponse(env, web_domains, st.query, st.web_result.val, outcome)
                  [] OTHER -> FormatConversationalResponse(env, st.query, outcome)
    IN  [branch |-> branch, variant |-> body.variant, parts |-> body.parts]

(***************************************************************************)
(* The graph (flows/langgraph_flow.py)                                     *)
(***************************************************************************)
VARIABLES
    state,        \* the State dict threaded through the nodes
    env,          \* the process environment of the run
    pc,           \* the node the executor runs next; "END"; or "raised"
    steps,        \* super-steps executed so far
    calls,        \* history: how many times each node has run
    lastNode,     \* history: the node that ran last
    lastRouter,   \* history: inputs and decision of the last orchestrator run
    ports,        \* history: the port calls of the last node run, the ports
                  \* it had a request for but found unreachable, and the
                  \* ports that have failed so far in the run
    exc,          \* the exception that escaped run_flow_async, if any
    cancelled,    \* history: the task running the flow has been cancelled
    runs,         \* the run_flow_async tasks that run concurrently in the
                  \* process, each with its own State
    process       \* what the tasks of one process share: the installed
                  \* packages and the module globals of text2cypher_agent

vars == << state, env, pc, steps, calls, lastNode, lastRouter, ports, exc, cancelled,
           runs, process >>

\* The external services the nodes call
Ports == {"classifier", "rewrite", "cypher_llm", "store", "search", "answer_llm"}

\* The node that ran called the ports `called`, of which `failed` failed
\* (raised, or for the rewrite port returned no content)
PortLogUnreachable(called, failed, unreachable) ==
    ports' = [called |-> called, failed |-> failed,
              everFailed |-> ports.everFailed \cup failed,
              unreachable |-> unreachable]
PortLog(called, failed) == PortLogUnreachable(called, failed, {})

Nodes == {"orchestrator", "refiner", "text_to_cypher", "web_search", "answerer"}

\* No flow has touched the module globals of text2cypher_agent
\* (_GLOBAL_DRIVER = None, _GLOBAL_LLM = None)
IdleProcess ==
    [genai |-> FALSE, neo4j |-> FALSE, google |-> FALSE, web_domains |-> FALSE,
     GLOBAL_DRIVER |-> FALSE, GLOBAL_LLM |-> FALSE]

\* initial_state of run_flow_async
InitialState(user_input, mock) ==
    [ query |-> user_input,
      refined_query |-> None,
      route_decision |-> None,
      cypher_result |-> None,
      web_result |-> None,
      final_answer |-> None,
      error |-> None,
      iteration_count |-> 0,
      mock |-> mock,
      route_annotations |-> None ]

Init ==
    /\ \E user_input \in Queries, mock \in BOOLEAN :
           state = InitialState(user_input, mock)
    /\ env \in Environments
    /\ pc = "orchestrator"
    /\ steps = 0
    /\ calls = [n \in Nodes |-> 0]
    /\ lastNode = "START"
    /\ lastRouter = [invoked |-> FALSE]
    /\ ports = [called |-> {}, failed |-> {}, everFailed |-> {}, unreachable |-> {}]
    /\ exc = None
    /\ cancelled = FALSE
    /\ runs = << >>
    /\ process = IdleProcess

\* The unconditional edges of create_graph
EdgeFromRerouting(node) ==
    CASE node = "refiner" -> "orchestrator"
      [] node = "text_to_cypher" -> "orchestrator"
      [] node = "web_search" -> "answerer"
      [] node = "answerer" -> "END"
EdgeFromAnswerLoops(node) ==
    CASE node = "refiner" -> "orchestrator"
      [] node = "text_to_cypher" -> "answerer"
      [] node = "web_search" -> "answerer"
      [] node = "answerer" -> "orchestrator"
EdgeFromSearchReroutes(node) ==
    CASE node = "refiner" -> "orchestrator"
      [] node = "text_to_cypher" -> "answerer"
      [] node = "web_search" -> "orchestrator"
      [] node = "answerer" -> "END"
EdgeFrom(node) ==
    CASE node = "refiner" -> "orchestrator"
      [] node = "text_to_cypher" -> "answerer"
      [] node = "web_search" -> "answerer"
      [] node = "answerer" -> "END"

\* route_decision(state): the conditional edge out of the orchestrator
route_decision(st) ==
    IF st.route_decision.some THEN st.route_decision.val ELSE "text_to_cypher"

\* A node runs only while the executor has super-steps left.
CanRun(node) == pc = node /\ steps < RecursionLimit

\* Bookkeeping shared by every node that returns normally
Ran(node) ==
    /\ steps' = steps + 1
    /\ calls' = [calls EXCEPT ![node] = @ + 1]
    /\ lastNode' = node
    /\ exc' = None

\* A node raised: the exception propagates out of app.ainvoke
Raised(node, what) ==
    /\ pc' = "raised"
    /\ exc' = Some(what)
    /\ steps' = steps + 1
    /\ calls' = [calls EXCEPT ![node] = @ + 1]
    /\ lastNode' = node
    /\ UNCHANGED state

\* The route OrchestratorNode.run records: decide_route's, or web_search
\* when the allowed-topic gate fires
RecordedRoute(st, outcome) ==
    LET route == decide_route(env, st.query, st.refined_query, st.iteration_count, outcome)
    IN  IF OverrideFires(env, route, st.query, st.refined_query) THEN "web_search" ELSE route

\* The state OrchestratorNode.run returns
OrchestratorRunCounting(st, outcome) ==
    [st EXCEPT !.route_decision = Some(RecordedRoute(st, outcome)),
               !.iteration_count = @ + 1]
OrchestratorRunClearsError(st, outcome) ==
    [st EXCEPT !.route_decision = Some(RecordedRoute(st, outcome)),
               !.error = None]
OrchestratorRunRecordsDecision(st, outcome) ==
    LET route == decide_route(env, st.query, st.refined_query, st.iteration_count, outcome)
        fires == OverrideFires(env, route, st.query, st.refined_query)
    IN  [st EXCEPT
            !.route_decision = Some(route),
            !.route_annotations =
                IF fires
                THEN Some([domain_check |->
                             [allowed_topics |-> AllowedTokens(env.allowed_topics),
                              matched |-> FALSE]])
                ELSE @]
OrchestratorRunAnnotatesAlways(st, outcome) ==
    [st EXCEPT
        !.route_decision = Some(RecordedRoute(st, outcome)),
        !.route_annotations =
            IF decide_route(env, st.query, st.refined_query, st.iteration_count, outcome)
                 = "text_to_cypher" /\ Strip(env.allowed_topics) /= << >>
            THEN Some([domain_check |->
                         [allowed_topics |-> AllowedTokens(env.allowed_topics),
                          matched |-> FALSE]])
            ELSE @]
OrchestratorRun(st, outcome) ==
    LET route == decide_route(env, st.query, st.refined_query, st.iteration_count, outcome)
        fires == OverrideFires(env, route, st.query, st.refined_query)
    IN  [st EXCEPT
            !.route_decision = Some(RecordedRoute(st, outcome)),
            !.route_annotations =
                IF fires
                THEN Some([domain_check |->
                             [allowed_topics |-> AllowedTokens(env.allowed_topics),
                              matched |-> FALSE]])
                ELSE @]

\* orchestrator_node: OrchestratorNode.run, then the conditional edge
Orchestrator ==
    /\ CanRun("orchestrator")
    /\ \E outcome \in IF CallsClassifier(env, state.iteration_count)
                      THEN { Some(o) : o \in ClassifierOutcomes } ELSE { None } :
         /\ state' = OrchestratorRun(state, outcome)
         /\ pc' = route_decision(state')
         /\ lastRouter' = [invoked |-> TRUE,
                           query |-> state.query,
                           refined_query |-> state.refined_query,
                           iteration_count |-> state.iteration_count,
                           classifier_called |-> outcome.some,
                           outcome |-> outcome,
                           decision |-> decide_route(env, state.query, state.refined_query,
                                                     state.iteration_count, outcome),
                           route |-> RecordedRoute(state, outcome)]
         /\ PortLog(IF outcome.some THEN {"classifier"} ELSE {},
                    IF outcome.some /\ outcome.val.kind = "raise" THEN {"classifier"} ELSE {})
    /\ Ran("orchestrator")
    /\ UNCHANGED << env, cancelled, runs, process >>

\* RefinerNode.run on a state whose query is non-empty and mock is off
\* reaches the LLM unless the client is missing.
RefinerRaises(st, outcome) ==
    /\ st.query /= << >>
    /\ ~st.mock
    /\ (RefinerLlmMissing(env) \/ outcome.kind = "raise")

\* RefinerNode.run reaches llm.generate_response
RefinerCallsLlm(st) == st.query /= << >> /\ ~st.mock /\ ~RefinerLlmMissing(env)

\* The state RefinerNode.run returns
RefinerRunOverwritesQuery(st, outcome) ==
    IF st.query = << >>
    THEN [st EXCEPT !.error = Some("missing 'query' in state")]
    ELSE IF st.mock
    THEN [st EXCEPT !.query = MockRefined(st.query),
                    !.refined_query = Some(MockRefined(st.query)),
                    !.iteration_count = @ + 1]
    ELSE IF ~Truthy(outcome.content)
    THEN [st EXCEPT !.error = Some("LLM returned empty content")]
    ELSE [st EXCEPT !.query = Strip(outcome.content.val),
                    !.refined_query = Some(Strip(outcome.content.val)),
                    !.iteration_count = @ + 1]
RefinerRunCountsFailure(st, outcome) ==
    IF st.query = << >>
    THEN [st EXCEPT !.error = Some("missing 'query' in state")]
    ELSE IF st.mock
    THEN [st EXCEPT !.refined_query = Some(MockRefined(st.query)),
                    !.iteration_count = @ + 1]
    ELSE IF ~Truthy(outcome.content)
    THEN [st EXCEPT !.error = Some("LLM returned empty content"),
                    !.iteration_count = @ + 1]
    ELSE [st EXCEPT !.refined_query = Some(Strip(outcome.content.val)),
                    !.iteration_count = @ + 1]
RefinerRun(st, outcome) ==
    IF st.query = << >>
    THEN [st EXCEPT !.error = Some("missing 'query' in state")]
    ELSE IF st.mock
    THEN [st EXCEPT !.refined_query = Some(MockRefined(st.query)),
                    !.iteration_count = @ + 1]
    ELSE IF ~Truthy(outcome.content)
    THEN [st EXCEPT !.error = Some("LLM returned empty content")]
    ELSE [st EXCEPT !.refined_query = Some(Strip(outcome.content.val)),
                    !.iteration_count = @ + 1]

Refiner ==
    /\ CanRun("refiner")
    /\ \E outcome \in RewriteOutcomes :
         /\ IF RefinerRaises(state, outcome)
            THEN Raised("refiner", IF RefinerLlmMissing(env)
                                   THEN "RuntimeError: Gemini client not available in environment"
                                   ELSE "rewrite LLM call failed")
            ELSE /\ state' = RefinerRun(state, outcome)
                 /\ pc' = EdgeFrom("refiner")
                 /\ Ran("refiner")
         /\ PortLog(IF RefinerCallsLlm(state) THEN {"rewrite"} ELSE {},
                    IF RefinerCallsLlm(state)
                       /\ (outcome.kind = "raise" \/ ~Truthy(outcome.content))
                    THEN {"rewrite"} ELSE {})
    /\ UNCHANGED << env, lastRouter, cancelled, runs, process >>

\* The state Text2CypherNode.run returns
Text2CypherRunIgnoresMissingQuery(st, genai, neo4j, gen, store) ==
    LET query == OrText(st.refined_query, st.query)
    IN  IF query = << >>
        THEN st
        ELSE [st EXCEPT !.cypher_result =
                 Some(CypherResult(env, genai, neo4j,
                                   clean_cypher(generate_cypher(env, genai, query, gen)), store))]
Text2CypherRun(st, genai, neo4j, gen, store) ==
    LET query == OrText(st.refined_query, st.query)
    IN  IF query = << >>
        THEN [st EXCEPT !.error = Some("missing 'query' in state")]
        ELSE [st EXCEPT !.cypher_result =
                 Some(CypherResult(env, genai, neo4j,
                                   clean_cypher(generate_cypher(env, genai, query, gen)), store))]

\* generate_cypher lets an exception of the LLM call escape
Text2CypherRaises(st, genai, gen) ==
    /\ OrText(st.refined_query, st.query) /= << >>
    /\ CypherLlmConfigured(env, genai)
    /\ gen.val.kind = "raise"

\* Text2CypherNode.run reaches llm.generate_content_async
Text2CypherCallsLlm(st, genai) ==
    OrText(st.refined_query, st.query) /= << >> /\ CypherLlmConfigured(env, genai)

\* Text2CypherNode.run reaches run_cypher with a driver
Text2CypherCallsStore(st, genai, neo4j, gen) ==
    /\ OrText(st.refined_query, st.query) /= << >>
    /\ ~Text2CypherRaises(st, genai, gen)
    /\ clean_cypher(generate_cypher(env, genai, OrText(st.refined_query, st.query), gen))
          /= NO_CYPHER
    /\ DriverAvailable(neo4j)

\* Text2CypherNode.run has a cypher to execute and no driver
Text2CypherStoreUnreachable(st, genai, neo4j, gen) ==
    /\ OrText(st.refined_query, st.query) /= << >>
    /\ ~Text2CypherRaises(st, genai, gen)
    /\ clean_cypher(generate_cypher(env, genai, OrText(st.refined_query, st.query), gen))
          /= NO_CYPHER
    /\ ~DriverAvailable(neo4j)

\* text2cypher_node
Text2Cypher ==
    /\ CanRun("text_to_cypher")
    /\ \E genai \in BOOLEAN, neo4j \in BOOLEAN :
       \E gen \in IF CypherLlmConfigured(env, genai)
                  THEN { Some(o) : o \in CypherLlmOutcomes } ELSE { None },
          store \in IF DriverAvailable(neo4j)
                    THEN { Some(o) : o \in StoreOutcomes } ELSE { None } :
         /\ IF Text2CypherRaises(state, genai, gen)
            THEN Raised("text_to_cypher", "cypher LLM call failed")
            ELSE /\ state' = Text2CypherRun(state, genai, neo4j, gen, store)
                 /\ pc' = EdgeFrom("text_to_cypher")
                 /\ Ran("text_to_cypher")
         /\ PortLogUnreachable(
                    (IF Text2CypherCallsLlm(state, genai) THEN {"cypher_llm"} ELSE {})
                    \cup (IF Text2CypherCallsStore(state, genai, neo4j, gen)
                          THEN {"store"} ELSE {}),
                    (IF Text2CypherRaises(state, genai, gen) THEN {"cypher_llm"} ELSE {})
                    \cup (IF Text2CypherCallsStore(state, genai, neo4j, gen)
                             /\ store.val.kind = "raise"
                          THEN {"store"} ELSE {}),
                    IF Text2CypherStoreUnreachable(state, genai, neo4j, gen)
                    THEN {"store"} ELSE {})
    /\ UNCHANGED << env, lastRouter, cancelled, runs, process >>

\* web_search_node: runs WebSearchNode on the active query text and records
\* the response as web_result
WebSearch ==
    /\ CanRun("web_search")
    /\ \E google \in BOOLEAN, results \in SearchResults :
         /\ state' = [state EXCEPT !.web_result =
                         Some(WebSearchRun(google, OrText(state.refined_query, state.query), results))]
         /\ PortLog(IF google /\ OrText(state.refined_query, state.query) /= << >>
                    THEN {"search"} ELSE {}, {})
    /\ pc' = EdgeFrom("web_search")
    /\ Ran("web_search")
    /\ UNCHANGED << env, lastRouter, cancelled, runs, process >>

\* AnswererNode.run
Answerer ==
    /\ CanRun("answerer")
    /\ \E web_domains \in WebSearchDomainsRead(env, state),
          outcome \in IF AnswerCallsLlm(env, state)
                      THEN { Some(o) : o \in AnswerLlmOutcomes } ELSE { None } :
         /\ state' = [state EXCEPT !.final_answer =
                         Some(FinalAnswer(env, web_domains, state, outcome))]
         /\ PortLog(IF outcome.some THEN {"answer_llm"} ELSE {},
                    IF outcome.some /\ outcome.val.kind = "raise" THEN {"answer_llm"} ELSE {})
    /\ pc' = EdgeFrom("answerer")
    /\ Ran("answerer")
    /\ UNCHANGED << env, lastRouter, cancelled, runs, process >>

\* The executor ran out of super-steps before END: GraphRecursionError
RecursionError ==
    /\ pc \in Nodes
    /\ steps >= RecursionLimit
    /\ pc' = "raised"
    /\ exc' = Some("GraphRecursionError")
    /\ PortLog({}, {})
    /\ UNCHANGED << state, env, steps, calls, lastNode, lastRouter, cancelled, runs, process >>

Next ==
    \/ Orchestrator
    \/ Refiner
    \/ Text2Cypher
    \/ WebSearch
    \/ Answerer
    \/ RecursionError

Spec == Init /\ [][Next]_vars

(***************************************************************************)
(* Cancellation of the task that awaits app.ainvoke                        *)
(***************************************************************************)
\* The ports the node about to run can be suspended on: the awaits of
\* client.generate_response (orchestrator, refiner, answerer), of
\* llm.generate_content_async and of run_cypher (text2cypher), and of
\* loop.run_in_executor (WebSearchNode.run, when the Google keys are set).
AwaitedPorts(node) ==
    CASE node = "orchestrator" ->
             IF CallsClassifier(env, state.iteration_count) THEN {"classifier"} ELSE {}
      [] node = "refiner" ->
             IF RefinerCallsLlm(state) THEN {"rewrite"} ELSE {}
      [] node = "text_to_cypher" ->
             (IF \E genai \in BOOLEAN : Text2CypherCallsLlm(state, genai)
              THEN {"cypher_llm"} ELSE {})
             \cup (IF \E genai \in BOOLEAN, neo4j \in BOOLEAN :
                      \E gen \in IF CypherLlmConfigured(env, genai)
                                 THEN { Some(o) : o \in CypherLlmOutcomes } ELSE { None } :
                          Text2CypherCallsStore(state, genai, neo4j, gen)
                   THEN {"store"} ELSE {})
      [] node = "web_search" ->
             IF OrText(state.refined_query, state.query) /= << >> THEN {"search"} ELSE {}
      [] node = "answerer" ->
             IF AnswerCallsLlm(env, state) THEN {"answer_llm"} ELSE {}
      [] OTHER -> {}

\* The task is cancelled while a node is suspended on a port: CancelledError
\* is raised at the await. It is no Exception, so no except clause of the
\* nodes catches it; every assignment to the state comes after the await;
\* run_flow_async does not catch it either.
Cancel ==
    /\ ~cancelled
    /\ \E node \in Nodes :
         /\ CanRun(node)
         /\ \E port \in AwaitedPorts(node) :
              PortLog({port}, {})
         /\ Raised(node, "asyncio.CancelledError")
    /\ cancelled' = TRUE
    /\ UNCHANGED << env, lastRouter, runs, process >>

NextCancel ==
    \/ Next
    \/ Cancel

SpecCancel == Init /\ [][NextCancel]_vars

(***************************************************************************)
(* The router alone: orchestrator_node invoked on a Context, and invoked   *)
(* again on the Context it returned                                        *)
(***************************************************************************)
InitRouter ==
    /\ \E user_input \in RouterTexts,
          refined_query \in {None, Some(<< >>), Some(<<"c","l","i","m","a"," ","d","e"," ","h","o","y">>)},
          iteration_count \in 0..MAX_REFINEMENTS :
           state = [InitialState(user_input, FALSE) EXCEPT
                        !.refined_query = refined_query,
                        !.iteration_count = iteration_count]
    /\ env \in Environments
    /\ pc = "orchestrator"
    /\ steps = 0
    /\ calls = [n \in Nodes |-> 0]
    /\ lastNode = "START"
    /\ lastRouter = [invoked |-> FALSE]
    /\ ports = [called |-> {}, failed |-> {}, everFailed |-> {}, unreachable |-> {}]
    /\ exc = None
    /\ cancelled = FALSE
    /\ runs = << >>
    /\ process = IdleProcess

\* The caller hands the Context the router returned to the router again
RouterAgain ==
    /\ pc \in Routes
    /\ lastNode = "orchestrator"
    /\ calls["orchestrator"] < MaxRouterRuns
    /\ pc' = "orchestrator"
    /\ UNCHANGED << state, env, steps, calls, lastNode, lastRouter, ports, exc, cancelled, runs, process >>

NextRouter ==
    \/ Orchestrator
    \/ RouterAgain

SpecRouter == InitRouter /\ [][NextRouter]_vars

(***************************************************************************)
(* Concurrent runs: several run_flow_async tasks of one process, each on   *)
(* its own State, their node steps interleaved                             *)
(***************************************************************************)
RunIds == {"a", "b"}

ConcurrentQueries ==
    { <<"t","o","p">>,
      <<"e","l"," ","s","t","o","c","k"," ","d","e"," ","t","a","l","a","d","r","o","s"," ","e","n"," ","l","a"," ","t","i","e","n","d","a">> }

\* What the ports answer to one run, whenever that run calls them
ResponseScripts ==
    { [classifier |-> c, rewrite |-> s.rewrite, gen |-> s.gen, store |-> s.store,
       search |-> s.search, answer |-> s.answer] :
        c \in { [kind |-> "dict", content |-> <<" ","t","e","x","t","_","t","o","_","c","y","p","h","e","r","\n">>],
                [kind |-> "raise"] },
        s \in { [rewrite |-> [kind |-> "content", content |-> Some(<<" ","L","i","s","t","a","r"," ","p","r","o","d","u","c","t","o","s"," ","c","o","n"," ","s","t","o","c","k"," ">>)],
                 gen |-> [kind |-> "text", text |-> <<" ","M","A","T","C","H"," ","(","c",":","C","l","i","e","n","t","e",")"," ","R","E","T","U","R","N"," ","c"," ">>],
                 store |-> [kind |-> "rows", rows |-> << "row1", "row2" >>],
                 search |-> << [title |-> <<"t","1">>, url |-> <<"h","t","t","p","s",":","/","/","e","x","a","m","p","l","e",".","c","o","m","/","1">>, content |-> <<"U","n","o"," ","d","o","s","."," ","T","r","e","s",".">>],
                               [title |-> <<"t","2">>, url |-> << >>, content |-> << >>] >>,
                 answer |-> [kind |-> "content", content |-> <<"H","a","y"," ","t","r","e","s"," ","p","r","o","d","u","c","t","o","s",".">>]],
                [rewrite |-> [kind |-> "content", content |-> None],
                 gen |-> [kind |-> "text", text |-> <<"N","O","_","C","Y","P","H","E","R">>],
                 store |-> [kind |-> "raise", message |-> "Neo4j query failed"],
                 search |-> << >>,
                 answer |-> [kind |-> "raise"]] } }

\* The arguments of one run_flow_async call, with the port responses of
\* that run
RunInputs ==
    [ query : ConcurrentQueries, mock : BOOLEAN, resp : ResponseScripts ]

ConcurrentEnvironments ==
    { e \in Environments : e.graphiti /\ e.allowed_topics = << >> }

Processes ==
    { [IdleProcess EXCEPT !.genai = TRUE, !.google = TRUE, !.neo4j = n] : n \in BOOLEAN }

\* _get_driver(): the cached driver when there is one, else a new driver
\* when the package and NEO4J_URI are there
GetDriverSingleUse(proc) ==
    IF proc.GLOBAL_DRIVER THEN FALSE ELSE DriverAvailable(proc.neo4j)
GetDriver(proc) ==
    IF proc.GLOBAL_DRIVER THEN TRUE ELSE DriverAvailable(proc.neo4j)

\* _get_llm() of text2cypher_agent: the cached model when there is one
GetLlm(proc) ==
    IF proc.GLOBAL_LLM THEN TRUE ELSE CypherLlmConfigured(env, proc.genai)

\* The module globals after Text2CypherNode() was constructed
ProcessAfter(r, proc) ==
    IF "text_to_cypher" \in r.active /\ r.steps < RecursionLimit
    THEN [proc EXCEPT !.GLOBAL_DRIVER = GetDriver(proc), !.GLOBAL_LLM = GetLlm(proc)]
    ELSE proc

\* The nodes the executor schedules after `node` returned state st
Successors(node, st) ==
    IF node = "orchestrator" THEN { route_decision(st) } ELSE { EdgeFrom(node) }

\* A run as run_flow_async starts it
StartOf(input) ==
    [input |-> input, state |-> InitialState(input.query, input.mock),
     active |-> {"orchestrator"}, steps |-> 0]

\* The run is over: END was reached or an exception left the executor
RunOver(r) == r.active \cap Nodes = {}

\* One super-step of a run: its scheduled node runs on the run's State with
\* the run's port responses
RunNodeStep(r, proc) ==
    LET node == CHOOSE n \in r.active \cap Nodes : TRUE
        st == r.state
        resp == r.input.resp
        raised == [r EXCEPT !.active = {"raised"}, !.steps = @ + 1]
        returned(st2) == [r EXCEPT !.state = st2, !.active = Successors(node, st2),
                                   !.steps = @ + 1]
    IN  IF r.steps >= RecursionLimit
        THEN [r EXCEPT !.active = {"raised"}]
        ELSE CASE node = "orchestrator" ->
                      returned(OrchestratorRun(st,
                                   IF CallsClassifier(env, st.iteration_count)
                                   THEN Some(resp.classifier) ELSE None))
               [] node = "refiner" ->
                      IF RefinerRaises(st, resp.rewrite)
                      THEN raised
                      ELSE returned(RefinerRun(st, resp.rewrite))
               [] node = "text_to_cypher" ->
                      LET gen == IF CypherLlmConfigured(env, proc.genai)
                                 THEN Some(resp.gen) ELSE None
                          store == IF GetDriver(proc) THEN Some(resp.store) ELSE None
                      IN  IF Text2CypherRaises(st, proc.genai, gen)
                          THEN raised
                          ELSE returned(Text2CypherRun(st, proc.genai, GetDriver(proc),
                                                       gen, store))
               [] node = "web_search" ->
                      returned([st EXCEPT !.web_result =
                                   Some(WebSearchRun(proc.google,
                                                     OrText(st.refined_query, st.query),
                                                     resp.search))])
               [] node = "answerer" ->
                      returned([st EXCEPT !.final_answer =
                                   Some(FinalAnswer(env, proc.web_domains, st,
                                            IF AnswerCallsLlm(env, st)
                                            THEN Some(resp.answer) ELSE None))])

\* run_flow_async awaited alone in a process
RECURSIVE RunAlone(_, _)
RunAlone(r, proc) ==
    IF RunOver(r) THEN r ELSE RunAlone(RunNodeStep(r, proc), ProcessAfter(r, proc))

InitConcurrent ==
    /\ runs \in [RunIds -> { StartOf(input) : input \in RunInputs }]
    /\ process \in Processes
    /\ env \in ConcurrentEnvironments
    /\ state = InitialState(<< >>, FALSE)
    /\ pc = "END"
    /\ steps = 0
    /\ calls = [n \in Nodes |-> 0]
    /\ lastNode = "START"
    /\ lastRouter = [invoked |-> FALSE]
    /\ ports = [called |-> {}, failed |-> {}, everFailed |-> {}, unreachable |-> {}]
    /\ exc = None
    /\ cancelled = FALSE

\* The event loop resumes one of the tasks, which runs its next node
RunStep ==
    /\ \E i \in RunIds :
         /\ ~RunOver(runs[i])
         /\ runs' = [runs EXCEPT ![i] = RunNodeStep(runs[i], process)]
         /\ process' = ProcessAfter(runs[i], process)
    /\ UNCHANGED << state, env, pc, steps, calls, lastNode, lastRouter, ports, exc, cancelled >>

NextConcurrent == RunStep

SpecConcurrent == InitConcurrent /\ [][NextConcurrent]_vars

(***************************************************************************)
(* Properties                                                              *)
(***************************************************************************)
\* The run is over: the graph reached END, or an exception left the executor
Terminated == pc \in {"END", "raised"}

\* The text a node works on: refined_query when it is present (set and not
\* empty), else query
ActiveText(query, refined_query) ==
    IF refined_query.some /\ refined_query.val /= << >> THEN refined_query.val ELSE query

\* Allowed topics are configured and none of them occurs in the text
\* (case-insensitive substring test)
OutsideAllowedTopics(text) ==
    /\ AllowedTokens(env.allowed_topics) /= {}
    /\ \A tok \in AllowedTokens(env.allowed_topics) : ~Contains(Lower(tok), Lower(text))

\* C1: before the Answer node runs, the Router has been invoked at most
\* MAX_REFINEMENTS + 1 = 3 times, whatever the ports return.
C1_RouterInvocationsBounded ==
    calls["answerer"] = 0 => calls["orchestrator"] <= MAX_REFINEMENTS + 1

\* C2: every run ends at the Answer node with a non-empty final_answer:
\* a run that is over reached END, and final_answer is set to a text with
\* at least one non-empty piece.
C2_RunEndsAnswered ==
    Terminated =>
        /\ pc = "END"
        /\ calls["answerer"] >= 1
        /\ state.final_answer.some
        /\ state.final_answer.val.parts /= << >>

\* C3: after the Refine node returns with ctx.error set the next node is the
\* Answer node (not the Router, not Refine); without error it is the Router.
C3_RefineErrorGoesToAnswer ==
    (lastNode = "refiner" /\ pc \in Nodes) =>
        pc = IF state.error.some THEN "answerer" ELSE "orchestrator"

\* C4: iteration_count <= MAX_REFINEMENTS in every reachable state, and a
\* Router invoked with iteration_count >= MAX_REFINEMENTS does not return
\* REFINE.
C4_IterationCountBounded ==
    /\ state.iteration_count <= MAX_REFINEMENTS
    /\ (lastRouter.invoked /\ lastRouter.iteration_count >= MAX_REFINEMENTS)
          => lastRouter.route /= "refiner"

\* C4 witness: a run ended after two refinements, the last Router
\* invocation having seen iteration_count = 2.
C4_Witness ==
    /\ pc = "END"
    /\ state.iteration_count = MAX_REFINEMENTS
    /\ calls["refiner"] = MAX_REFINEMENTS
    /\ lastRouter.invoked
    /\ lastRouter.iteration_count = MAX_REFINEMENTS

\* C5: when the Router records a route while allowed topics are configured
\* and the analyzed text contains none of them, the recorded route is not
\* text_to_cypher, and the Structured-Query node never runs on such a text.
C5_AllowlistBlocksStructuredQuery ==
    /\ (lastRouter.invoked
        /\ OutsideAllowedTopics(ActiveText(lastRouter.query, lastRouter.refined_query)))
          => /\ lastRouter.route /= "text_to_cypher"
             /\ state.route_decision = Some(lastRouter.route)
    /\ (pc = "text_to_cypher" \/ calls["text_to_cypher"] > 0)
          => ~OutsideAllowedTopics(ActiveText(state.query, state.refined_query))

\* C5 witness: under the loop guard the Router decided text_to_cypher for a
\* text outside the allowed topics, and recorded web_search instead.
C5_Witness ==
    /\ lastRouter.invoked
    /\ lastRouter.iteration_count >= MAX_REFINEMENTS
    /\ lastRouter.decision = "text_to_cypher"
    /\ OutsideAllowedTopics(ActiveText(lastRouter.query, lastRouter.refined_query))
    /\ state.route_decision = Some("web_search")

\* C6: no exception escapes the graph executor, whatever port call fails.
C6_NoExceptionEscapes == ~exc.some /\ pc /= "raised"

\* C7: at most one of cypher_result and web_result is populated.
C7_ResultsMutuallyExclusive ==
    ~(state.cypher_result.some /\ state.web_result.some)

\* C7 witness: a run that took the structured-query branch ended with
\* cypher_result populated and web_result null.
C7_Witness ==
    /\ pc = "END"
    /\ state.cypher_result.some
    /\ ~state.web_result.some
    /\ calls["text_to_cypher"] = 1

C9_LoopGuardDecidesByKeywords ==
    (lastRouter.invoked /\ lastRouter.iteration_count >= 2) =>
        /\ ~lastRouter.classifier_called
        /\ lastRouter.decision =
              IF \E k \in seems_db_keywords :
                     Contains(k, Lower(ActiveText(lastRouter.query, lastRouter.refined_query)))
              THEN "text_to_cypher" ELSE "web_search"

\* C9 witness: with a classifier configured, the Router was invoked at
\* iteration_count = 2 on a text holding the word "top" but no domain
\* keyword, and decided web_search.
C9_Witness ==
    /\ lastRouter.invoked
    /\ lastRouter.iteration_count = 2
    /\ ClassifierConfigured(env)
    /\ Contains(<<"t","o","p">>, Lower(ActiveText(lastRouter.query, lastRouter.refined_query)))
    /\ lastRouter.decision = "web_search"

\* C10: the Answer node answers by fixed priority: the error apology (with
\* the error text) when error is set, even with results populated; else
\* from cypher_result (the failure report exactly when it carries an error
\* sub-field); else from web_result; else the conversational reply.
C10_AnswerPriority ==
    calls["answerer"] >= 1 =>
        LET answer == state.final_answer.val
        IN  IF state.error.some
            THEN /\ answer.branch = "error"
                 /\ \E i \in 1..Len(answer.parts) : answer.parts[i] = Str(state.error.val)
            ELSE IF state.cypher_result.some
            THEN /\ answer.branch = "cypher"
                 /\ ("error" \in DOMAIN state.cypher_result.val)
                       <=> (answer.variant = "cypher_failed")
            ELSE IF state.web_result.some
            THEN answer.branch = "web"
            ELSE answer.branch = "conversational"

\* A node ran in this step (and returned or raised)
NodeStep(node) == pc = node /\ steps' = steps + 1

\* C11: once error is set, no node that runs afterwards calls a port or
\* populates cypher_result, web_result or refined_query, and a run that
\* ends with error set ends with the error-flavored answer.
C11_ErrorShortCircuits ==
    /\ [][state.error.some =>
            /\ ports'.called = {}
            /\ state'.cypher_result = state.cypher_result
            /\ state'.web_result = state.web_result
            /\ state'.refined_query = state.refined_query]_vars
    /\ []((pc = "END" /\ state.error.some) => state.final_answer.val.branch = "error")

\* The Refine node ran in this step and did not fail: the query was not
\* empty, no exception left it and the rewrite port, if called, answered
\* with content
RefineSucceeds ==
    /\ NodeStep("refiner")
    /\ pc' /= "raised"
    /\ state.query /= << >>
    /\ "rewrite" \notin ports'.failed

\* The Refine node ran in this step and failed: the query was empty, or the
\* rewrite port returned empty content or raised
RefineFails ==
    /\ NodeStep("refiner")
    /\ (state.query = << >> \/ "rewrite" \in ports'.failed)

\* C12: iteration_count never decreases and only the Refine node changes
\* it; a successful Refine execution sets refined_query and adds exactly 1.
C12_IterationCountOnlyByRefine ==
    [][/\ state'.iteration_count >= state.iteration_count
       /\ state'.iteration_count /= state.iteration_count =>
            /\ pc = "refiner"
            /\ state'.iteration_count = state.iteration_count + 1
            /\ state'.refined_query.some
       /\ RefineSucceeds =>
            /\ state'.iteration_count = state.iteration_count + 1
            /\ state'.refined_query.some]_vars

\* C12 witness: a run in which the Refine node succeeded twice has ended.
C12_Witness ==
    /\ pc = "END"
    /\ calls["refiner"] = 2
    /\ state.iteration_count = 2
    /\ Truthy(state.refined_query)
    /\ ~state.error.some

\* C13: a failing Refine execution (empty query, or a rewrite port that
\* returns empty content or raises) sets error and leaves iteration_count
\* and refined_query unchanged.
C13_RefineFailureSetsError ==
    [][RefineFails =>
         /\ state'.error.some
         /\ state'.iteration_count = state.iteration_count
         /\ state'.refined_query = state.refined_query]_vars

\* C14: a port that has failed in the run is not called again in the run.
C14_NoPortCalledAfterItFailed ==
    [][ports'.called \cap ports.everFailed = {}]_vars

\* What the classifier told the router: a route label, or nothing usable
\* (not configured, raised, no dict, or an answer holding no label)
ClassifierLabel(outcome) ==
    IF outcome.some /\ outcome.val.kind = "dict"
       /\ MapDecision(Upper(Strip(outcome.val.content))).some
    THEN MapDecision(Upper(Strip(outcome.val.content))).val
    ELSE "none"

\* The last router invocation decided by the fallback heuristic
DecidedByHeuristic ==
    /\ lastRouter.invoked
    /\ lastRouter.iteration_count < MAX_REFINEMENTS
    /\ ClassifierLabel(lastRouter.outcome) = "none"

\* The text the last router invocation analyzed
AnalyzedText == ActiveText(lastRouter.query, lastRouter.refined_query)

Tokens(text) == WordCount(text)
HasConversationalMarker(text) == \E w \in conversational_words : Contains(w, Lower(text))
HasDomainKeyword(text) == \E k \in heuristic_db_keywords : Contains(k, Lower(text))
HasEntityKeyword(text) == \E k \in seems_db_keywords : Contains(k, Lower(text))
IsQuestion(text) == LET t == Strip(text) IN t /= << >> /\ t[Len(t)] = "?"
ShortOrShortQuestion(text) == Tokens(text) <= 3 \/ (IsQuestion(text) /\ Tokens(text) <= 4)

\* The decision table of the fallback heuristic, first match wins
HeuristicTable(text) ==
    IF Tokens(text) <= 2 /\ HasConversationalMarker(text) THEN "answerer"
    ELSE IF HasDomainKeyword(text)
    THEN (IF is_vague_query(text) THEN "refiner" ELSE "text_to_cypher")
    ELSE IF ShortOrShortQuestion(text) THEN "refiner"
    ELSE "web_search"

\* C15: with the classifier unavailable or unparseable and iteration_count
\* below 2, the router's decision is the one of the fixed first-match-wins
\* table: conversational, then domain keyword, then vagueness, then search.
C15_HeuristicDecisionTable ==
    DecidedByHeuristic => lastRouter.decision = HeuristicTable(AnalyzedText)

\* C15 witness: a 2-token text holding both a conversational marker and a
\* domain keyword was decided by the heuristic, as answerer.
C15_Witness ==
    /\ DecidedByHeuristic
    /\ Tokens(AnalyzedText) = 2
    /\ HasConversationalMarker(AnalyzedText)
    /\ HasDomainKeyword(AnalyzedText)
    /\ lastRouter.decision = "answerer"

\* C16 as stated: for every short input (at most 3 tokens, or a question
\* of at most 4) holding a domain keyword of the heuristic, the vagueness
\* check is false and the heuristic never returns refiner.
C16_DomainKeywordSuppressesVagueness ==
    (DecidedByHeuristic /\ ShortOrShortQuestion(AnalyzedText) /\ HasDomainKeyword(AnalyzedText))
        => /\ ~is_vague_query(AnalyzedText)
           /\ lastRouter.decision /= "refiner"

\* C16 as amended: for every input of at most 3 tokens holding one of the
\* entity keywords of the vagueness check, the vagueness check is false and
\* the heuristic never returns refiner.
C16_EntityKeywordSuppressesVagueness ==
    (DecidedByHeuristic /\ Tokens(AnalyzedText) <= 3 /\ HasEntityKeyword(AnalyzedText))
        => /\ ~is_vague_query(AnalyzedText)
           /\ lastRouter.decision /= "refiner"

\* C16 witness: the heuristic decided text_to_cypher for a 1-token text
\* holding an entity keyword.
C16_Witness ==
    /\ DecidedByHeuristic
    /\ Tokens(AnalyzedText) = 1
    /\ HasEntityKeyword(AnalyzedText)
    /\ lastRouter.decision = "text_to_cypher"

\* The allowed-topic override applies to the last router invocation: the
\* decision was text_to_cypher, allowed topics are configured and no token
\* of them occurs in the analyzed text
OverrideApplies ==
    /\ lastRouter.invoked
    /\ lastRouter.decision = "text_to_cypher"
    /\ Strip(env.allowed_topics) /= << >>
    /\ \A tok \in AllowedTokens(env.allowed_topics) : ~Contains(tok, Lower(AnalyzedText))

TopProductos == <<"t","o","p"," ","p","r","o","d","u","c","t","o","s">>
Top == <<"t","o","p">>

\* The first router invocation of a run, with no classifier configured
FirstHeuristicInvocation(query) ==
    /\ lastRouter.invoked
    /\ ~ClassifierConfigured(env)
    /\ lastRouter.query = query
    /\ lastRouter.iteration_count = 0
    /\ ~lastRouter.refined_query.some

C18_ConversationalGoesToAnswer ==
    (~ClassifierConfigured(env) /\ Tokens(state.query) <= 2 /\ HasConversationalMarker(state.query))
        => /\ lastRouter.invoked => (lastRouter.route = "answerer" /\ calls["orchestrator"] = 1)
           /\ calls["refiner"] = 0
           /\ calls["text_to_cypher"] = 0
           /\ calls["web_search"] = 0
           /\ ~state.cypher_result.some
           /\ ~state.web_result.some
           /\ Terminated =>
                /\ pc = "END"
                /\ state.final_answer.some
                /\ state.final_answer.val.branch = "conversational"
                /\ state.final_answer.val.variant \in {"greeting", "greeting_topics"}

\* C18 witness: the run on "Hola" without classifier has ended with the
\* greeting.
C18_Witness ==
    /\ ~ClassifierConfigured(env)
    /\ state.query = <<"H","o","l","a">>
    /\ pc = "END"
    /\ state.final_answer.some
    /\ state.final_answer.val.branch = "conversational"

\* C19: when the override fires the router records domain_check with
\* matched = false and the route web_search; domain_check is written in no
\* other case, so its presence implies route = web_search.
C19_DomainCheckOnlyOnOverride ==
    /\ OverrideApplies =>
          /\ state.route_annotations.some
          /\ state.route_annotations.val.domain_check.matched = FALSE
          /\ lastRouter.route = "web_search"
    /\ state.route_annotations.some =>
          /\ OverrideApplies
          /\ state.route_decision = Some("web_search")

\* C19 witness: the classifier answered text_to_cypher for a text outside
\* the allowed topics and the run ended with domain_check recorded.
C19_Witness ==
    /\ pc = "END"
    /\ lastRouter.invoked
    /\ lastRouter.classifier_called
    /\ ClassifierLabel(lastRouter.outcome) = "text_to_cypher"
    /\ state.route_annotations.some
    /\ calls["web_search"] = 1

\* C20: the router invoked again on the Context it returned, with the
\* classifier unavailable or answering the same label, decides the same
\* route and leaves the Context as it was.
C20_RouterIdempotent ==
    [][(/\ NodeStep("orchestrator")
        /\ lastRouter.invoked
        /\ ClassifierLabel(lastRouter'.outcome) = ClassifierLabel(lastRouter.outcome))
          => /\ lastRouter'.route = lastRouter.route
             /\ state' = state]_vars

\* C20 witness: the router ran twice on one Context whose route was
\* overridden to web_search.
C20_Witness ==
    /\ calls["orchestrator"] = 2
    /\ lastRouter.route = "web_search"
    /\ state.route_annotations.some
    /\ state.route_decision = Some("web_search")

\* C21: the router never fails. Every router invocation returns, hands the
\* run to exactly one of the four routes, records that route and leaves
\* error as it was; and when, below the loop guard, the classifier is not
\* configured, raises, or answers without any label, the decision is the
\* one of the deterministic heuristic on the analyzed text.
C21_RouterNeverFails ==
    [][NodeStep("orchestrator") =>
          /\ exc' = None
          /\ pc' \in Routes
          /\ state'.route_decision = Some(pc')
          /\ state'.error = state.error
          /\ (state.iteration_count < MAX_REFINEMENTS
               /\ ClassifierLabel(lastRouter'.outcome) = "none")
                 => lastRouter'.decision
                      = heuristic_route(ActiveText(state.query, state.refined_query))]_vars

\* C21 witness: the classifier was called and raised; the router decided by
\* the heuristic and handed the run to a route with no error set.
C21_Witness ==
    /\ lastNode = "orchestrator"
    /\ lastRouter.classifier_called
    /\ lastRouter.outcome.val.kind = "raise"
    /\ lastRouter.decision = heuristic_route(AnalyzedText)
    /\ pc \in Routes
    /\ ~state.error.some
    /\ ~exc.some

\* C22: after every router invocation route_decision holds the label of
\* that invocation after the allowed-topic override: the decision itself,
\* or web_search when the decision was text_to_cypher and the override
\* fired (never the text_to_cypher it replaced); and the node the executor
\* runs next is the node route_decision names.
C22_RouteIsPostOverride ==
    [][NodeStep("orchestrator") =>
          LET decision == lastRouter'.decision
              fired == OverrideFires(env, decision, state.query, state.refined_query)
          IN  /\ state'.route_decision.some
              /\ state'.route_decision.val = IF fired THEN "web_search" ELSE decision
              /\ fired => state'.route_decision.val /= "text_to_cypher"
              /\ pc' = state'.route_decision.val]_vars

\* C22 witness: the classifier answered text_to_cypher for a text outside
\* the allowed topics; web_search was recorded and is the node to run next.
C22_Witness ==
    /\ lastNode = "orchestrator"
    /\ lastRouter.classifier_called
    /\ ClassifierLabel(lastRouter.outcome) = "text_to_cypher"
    /\ lastRouter.decision = "text_to_cypher"
    /\ OutsideAllowedTopics(AnalyzedText)
    /\ state.route_decision = Some("web_search")
    /\ pc = "web_search"

\* C23: the Structured-Query node and the External-Search node are each
\* followed directly by the Answer node; at most one of the two runs, at
\* most once; and a run that is over has run the Answer node exactly once,
\* as its last node.
C23_OneTerminalBranch ==
    /\ lastNode \in {"text_to_cypher", "web_search"} => pc = "answerer"
    /\ calls["text_to_cypher"] + calls["web_search"] <= 1
    /\ calls["answerer"] <= 1
    /\ Terminated => (calls["answerer"] = 1 /\ lastNode = "answerer")

\* The Structured-Query node ran last, returned, and worked on a non-empty
\* active query
StructuredQueryRan ==
    /\ lastNode = "text_to_cypher"
    /\ pc = "answerer"
    /\ ActiveText(state.query, state.refined_query) /= << >>

\* The shapes of structured_result, each with the case it stands for; the
\* store port was called exactly when translation succeeded and a driver
\* was available
ShapeTranslationFailed(r) ==
    DOMAIN r = {"error"} /\ "store" \notin ports.called
ShapeNotExecuted(r) ==
    /\ DOMAIN r = {"cypher", "results", "note"}
    /\ r.cypher /= NO_CYPHER
    /\ r.results = << >>
    /\ "store" \notin ports.called
ShapeExecuted(r) ==
    /\ DOMAIN r = {"cypher", "results"}
    /\ r.cypher /= NO_CYPHER
    /\ "store" \in ports.called \ ports.failed
ShapeExecutionFailed(r) ==
    /\ DOMAIN r = {"cypher", "error"}
    /\ r.cypher /= NO_CYPHER
    /\ "store" \in ports.called \cap ports.failed

\* C24 as stated: after the Structured-Query node ran on a non-empty active
\* query, structured_result has one of three shapes and no other: {error},
\* {query, results: [], note}, {query, results: rows}.
C24_ThreeResultShapes ==
    StructuredQueryRan =>
        /\ state.cypher_result.some
        /\ \/ ShapeTranslationFailed(state.cypher_result.val)
           \/ ShapeNotExecuted(state.cypher_result.val)
           \/ ShapeExecuted(state.cypher_result.val)

\* C24 amended: after the Structured-Query node ran on a non-empty active
\* query, structured_result has one of four shapes and no other: the three
\* above, or {query, error} when translation succeeded and the execution
\* against the store failed.
C24_FourResultShapes ==
    StructuredQueryRan =>
        /\ state.cypher_result.some
        /\ \/ ShapeTranslationFailed(state.cypher_result.val)
           \/ ShapeNotExecuted(state.cypher_result.val)
           \/ ShapeExecuted(state.cypher_result.val)
           \/ ShapeExecutionFailed(state.cypher_result.val)

\* C24 witness: the store raised while executing a generated query and
\* structured_result holds the query and the error text.
C24_Witness ==
    /\ StructuredQueryRan
    /\ state.cypher_result.some
    /\ ShapeExecutionFailed(state.cypher_result.val)
    /\ state.cypher_result.val.error = "Neo4j query failed"

\* The Structured-Query node ran last and found no driver for the query it
\* had generated
StoreUnreachable == lastNode = "text_to_cypher" /\ "store" \in ports.unreachable

\* C25: an unreachable store is non-fatal. When translation succeeded and
\* no driver is available the Structured-Query node leaves error as it was,
\* records the generated query with empty results and a note, and hands
\* over to the Answer node; and the final answer of such a run is neither
\* the apology for an error nor the report of a failed query.
C25_StoreUnreachableIsNonFatal ==
    /\ [][(NodeStep("text_to_cypher") /\ "store" \in ports'.unreachable) =>
            state'.error = state.error]_vars
    /\ [](StoreUnreachable =>
            /\ pc = "answerer"
            /\ state.cypher_result.some
            /\ ShapeNotExecuted(state.cypher_result.val)
            /\ state.cypher_result.val.note /= << >>)
    /\ []((pc = "END" /\ state.cypher_result.some
              /\ "note" \in DOMAIN state.cypher_result.val) =>
            /\ state.final_answer.val.branch /= "error"
            /\ state.final_answer.val.variant /= "cypher_failed")

\* refined_query is present before the step: set, and not the empty text
RefinedPresent == Truthy(state.refined_query)

\* The router consumed refined_query: what it decided without a classifier
\* label is what the loop guard or the heuristic decides on refined_query
RouterUsesRefined ==
    (NodeStep("orchestrator") /\ RefinedPresent
       /\ ClassifierLabel(lastRouter'.outcome) = "none") =>
        lastRouter'.decision =
            IF state.iteration_count >= MAX_REFINEMENTS
            THEN (IF seems_db_query(state.refined_query.val)
                  THEN "text_to_cypher" ELSE "web_search")
            ELSE heuristic_route(state.refined_query.val)

\* A second Refine in mock mode rewrites refined_query
RefineUsesRefined ==
    (NodeStep("refiner") /\ RefinedPresent /\ state.mock /\ pc' /= "raised") =>
        state'.refined_query = Some(MockRefined(state.refined_query.val))

\* The Structured-Query node without an LLM translates refined_query
StructuredQueryUsesRefined ==
    (NodeStep("text_to_cypher") /\ RefinedPresent /\ pc' /= "raised"
       /\ "cypher_llm" \notin ports'.called) =>
        LET cypher == clean_cypher(RuleBasedCypher(state.refined_query.val))
            r == state'.cypher_result.val
        IN  IF cypher = NO_CYPHER
            THEN DOMAIN r = {"error"}
            ELSE "cypher" \in DOMAIN r /\ r.cypher = cypher

\* The External-Search node searches for refined_query
ExternalSearchUsesRefined ==
    (NodeStep("web_search") /\ RefinedPresent) =>
        state'.web_result.val.question = Some(state.refined_query.val)

\* The Answer node, answering from search results without an LLM, gates
\* on refined_query; and when nothing was found it names refined_query
AnswerUsesRefined ==
    (NodeStep("answerer") /\ RefinedPresent
       /\ state'.final_answer.val.branch = "web") =>
        LET answer == state'.final_answer.val
            matched == ContainsAny(AllowedTokens(env.allowed_topics),
                                   Lower(state.refined_query.val))
        IN  /\ answer.variant = "out_of_domain" => ~matched
            /\ (answer.variant = "synthesized" /\ ~AnswerLlmConfigured(env)
                   /\ env.allowed_topics /= << >>) => matched
            /\ answer.variant = "nothing_found" =>
                   answer.parts[2] = Text(state.refined_query.val)

C27_QueryImmutable == [][state'.query = state.query]_vars

\* C27 witness: a run ended after a refinement and a terminal branch, with
\* refined_query holding a text other than query and query still one of
\* the user inputs.
C27_Witness ==
    /\ pc = "END"
    /\ calls["refiner"] >= 1
    /\ calls["text_to_cypher"] + calls["web_search"] = 1
    /\ state.refined_query.some
    /\ state.refined_query.val /= state.query
    /\ state.query \in Queries \ {<< >>}

\* C28: a router invocation changes only route_decision and
\* route_annotations: query, refined_query, iteration_count, cypher_result,
\* web_result, error and final_answer are as they were (mock too).
C28_RouterWritesOnlyRoute ==
    [][NodeStep("orchestrator") =>
          /\ state'.query = state.query
          /\ state'.refined_query = state.refined_query
          /\ state'.iteration_count = state.iteration_count
          /\ state'.cypher_result = state.cypher_result
          /\ state'.web_result = state.web_result
          /\ state'.error = state.error
          /\ state'.final_answer = state.final_answer
          /\ state'.mock = state.mock]_vars

\* C28 witness: the router has just run on a Context with refined_query,
\* a positive iteration_count and error set, and its override wrote
\* route_annotations; those fields are still there.
C28_Witness ==
    /\ lastNode = "orchestrator"
    /\ pc = "web_search"
    /\ state.route_annotations.some
    /\ state.refined_query.some
    /\ state.iteration_count = 1
    /\ state.error.some

\* C29: in the step in which the run is cancelled while a node awaits a
\* port, the executor goes directly to the Answer node with error set to a
\* cancellation text, and nothing else of the Context changes (no partial
\* result of the interrupted node is recorded); no exception leaves the
\* executor.
C29_CancellationGoesToAnswer ==
    [][(cancelled' /\ ~cancelled) =>
          /\ pc' = "answerer"
          /\ ~exc'.some
          /\ state'.error.some
          /\ state' = [state EXCEPT !.error = state'.error]]_vars

\* The process before any flow ran in it
FreshProcess == [process EXCEPT !.GLOBAL_DRIVER = FALSE, !.GLOBAL_LLM = FALSE]

\* C30: runs on distinct Contexts that execute concurrently do not affect
\* each other: under every interleaving of their node steps a run that is
\* over ended exactly as it ends when it is the only run of the process and
\* gets the same port responses; and a run never has more than one node
\* scheduled.
C30_ConcurrentRunsIndependent ==
    \A i \in DOMAIN runs :
        /\ Cardinality(runs[i].active) <= 1
        /\ RunOver(runs[i]) =>
               runs[i] = RunAlone(StartOf(runs[i].input), FreshProcess)

\* C30 witness: two runs with different inputs ended after each executed
\* the Structured-Query node against the store, the later one with the
\* driver the earlier one had cached.
C30_Witness ==
    /\ DOMAIN runs = RunIds
    /\ process.GLOBAL_DRIVER
    /\ \A i \in RunIds :
         /\ runs[i].active = {"END"}
         /\ runs[i].state.cypher_result.some
         /\ "results" \in DOMAIN runs[i].state.cypher_result.val
         /\ "note" \notin DOMAIN runs[i].state.cypher_result.val
    /\ runs["a"].input /= runs["b"].input

\* The final answer is a summary of search results: written by the
\* text-generation service or synthesized from the top result
SummaryOfSearchResults ==
    /\ Terminated
    /\ state.final_answer.some
    /\ state.final_answer.val.branch = "web"
    /\ state.final_answer.val.variant \in {"llm", "synthesized"}

\* The text of a final answer that is one piece of text
SummaryText == state.final_answer.val.parts[1].text

\* The sentences of a text: its pieces between sentence ends, the empty
\* ones left out
SentenceCount(t) ==
    Cardinality({ i \in DOMAIN SplitSentences(Strip(t)) : SplitSentences(Strip(t))[i] /= << >> })

\* C31: a final_answer synthesized from search results has at most 2
\* sentences and at most 40 words, whatever the length of the text the
\* text-generation service returned or of the top search result.
C31_SummaryIsBounded ==
    SummaryOfSearchResults =>
        /\ SentenceCount(SummaryText) <= 2
        /\ Len(SplitWords(SummaryText)) <= 40

\* The External-Search node has just returned the results of a search that
\* succeeded, and the Answer node is next
SearchJustSucceeded ==
    /\ pc = "answerer"
    /\ lastNode = "web_search"
    /\ state.web_result.some
    /\ state.web_result.val.success

\* What the Answer node reports on the search result when allowed search
\* domains are configured, for each behaviour of the text-generation service
ReportsWithDomains ==
    { FinalAnswer(env, TRUE, state, o).variant :
        o \in IF AnswerCallsLlm(env, state)
              THEN { Some(x) : x \in AnswerLlmOutcomes } ELSE { None } }

NoAllowedTopics == AllowedTokens(env.allowed_topics) = {}

\* C33: the allowlist override is disabled when the allowed-topics set is
\* empty: a text_to_cypher decision of the router is never changed to
\* web_search and no domain_check annotation is written.
C33_EmptyAllowlistDisablesOverride ==
    (NoAllowedTopics /\ lastRouter.invoked) =>
        /\ lastRouter.decision = "text_to_cypher" => lastRouter.route = "text_to_cypher"
        /\ ~state.route_annotations.some

\* Every Refine execution of the run so far succeeded: none found the query
\* missing, got an empty rewrite, or raised
EveryRefineSucceeded ==
    /\ calls["refiner"] > 0 => state.query /= << >>
    /\ ~(state.error.some /\ state.error.val = "LLM returned empty content")
    /\ ~(pc = "raised" /\ lastNode = "refiner")

FinalDecisionRecorded ==
    /\ state.route_decision.some
    /\ state.route_decision.val \in {"text_to_cypher", "web_search", "answerer"}

\* C35: a non-REFINE routing decision is final: once the Router recorded
\* text_to_cypher, web_search or answerer, no later step of the run executes
\* the Router or the Refine node, and the recorded route, refined_query and
\* iteration_count keep their values until the run is over.
C35_NonRefineDecisionIsFinal ==
    [][FinalDecisionRecorded =>
          /\ calls'["orchestrator"] = calls["orchestrator"]
          /\ calls'["refiner"] = calls["refiner"]
          /\ pc' \notin {"orchestrator", "refiner"}
          /\ state'.route_decision = state.route_decision
          /\ state'.refined_query = state.refined_query
          /\ state'.iteration_count = state.iteration_count]_vars

\* C35 witness: a run that refined once, then got a final decision, ran the
\* decided node and the Answer node, and is over.
C35_Witness ==
    /\ pc = "END"
    /\ FinalDecisionRecorded
    /\ state.refined_query.some
    /\ state.iteration_count = 1
    /\ calls["orchestrator"] = 2
    /\ calls["web_search"] + calls["text_to_cypher"] = 1
    /\ calls["answerer"] = 1

\* C36: the loop guard and the fallback heuristic agree on what is a
\* structured-data query: whenever the fallback heuristic (iteration_count
\* below 2) decides text_to_cypher for a text, the loop-guard rule applied to
\* the same text decides text_to_cypher too.
C36_LoopGuardAgreesWithHeuristic ==
    (DecidedByHeuristic /\ lastRouter.decision = "text_to_cypher") =>
        LoopGuardDecision(lastRouter.query, lastRouter.refined_query) = "text_to_cypher"

\* The label words in the order the Router looks for them, with the route
\* each stands for
LabelOrder ==
    << [word |-> <<"C","Y","P","H","E","R">>, route |-> "text_to_cypher"],
       [word |-> <<"W","E","B">>, route |-> "web_search"],
       [word |-> <<"R","E","F","I","N","E">>, route |-> "refiner"],
       [word |-> <<"A","N","S","W","E","R">>, route |-> "answerer"] >>

\* The label words that occur in a response, as positions of LabelOrder
LabelsIn(text) == { i \in DOMAIN LabelOrder : Contains(LabelOrder[i].word, Upper(text)) }

\* The last router invocation got a response text from the classifier
ClassifierResponded ==
    /\ lastRouter.invoked
    /\ lastRouter.classifier_called
    /\ lastRouter.outcome.val.kind = "dict"

\* C37: a classifier response is resolved in the fixed order text_to_cypher
\* (TEXT_TO_CYPHER/CYPHER), web_search (WEB), refiner (REFINE), answerer
\* (ANSWER): the first of them that occurs as a substring decides, whatever
\* other label words the response holds; a response with none of them is
\* unparseable and the fallback heuristic decides.
C37_LabelPriorityOrder ==
    ClassifierResponded =>
        LET hits == LabelsIn(lastRouter.outcome.val.content)
        IN  IF hits = {}
            THEN lastRouter.decision = heuristic_route(AnalyzedText)
            ELSE lastRouter.decision =
                     LabelOrder[CHOOSE i \in hits : \A j \in hits : i <= j].route

\* C37 witness: the response held answer, web and cypher, in that order,
\* and the Router decided text_to_cypher.
C37_Witness ==
    /\ ClassifierResponded
    /\ LabelsIn(lastRouter.outcome.val.content) = {1, 2, 4}
    /\ lastRouter.decision = "text_to_cypher"

\* The Structured-Query node is about to run with no active query text
NoActiveQueryText ==
    OrText(state.refined_query, state.query) = << >>

\* C38: when the Structured-Query node runs with no active query text
\* (refined_query and query both empty), it sets error, leaves cypher_result
\* unset and calls neither the translation port nor the store port; the run
\* then ends with the error-flavored answer.
C38_MissingQueryIsAnError ==
    /\ [][(NodeStep("text_to_cypher") /\ NoActiveQueryText) =>
             /\ pc' = "answerer"
             /\ state'.error.some
             /\ ~state'.cypher_result.some
             /\ ports'.called = {}
             /\ ports'.unreachable = {}]_vars
    /\ []((pc = "END" /\ calls["text_to_cypher"] > 0 /\ NoActiveQueryText) =>
             /\ state.error.some
             /\ state.final_answer.some
             /\ state.final_answer.val.branch = "error")

\* C38 witness: the classifier sent an empty query to the Structured-Query
\* node, and the run ended with the apology for the missing query.
C38_Witness ==
    /\ pc = "END"
    /\ calls["text_to_cypher"] = 1
    /\ state.query = << >>
    /\ state.error = Some("missing 'query' in state")
    /\ ~state.cypher_result.some
    /\ state.final_answer.val.branch = "error"

=============================================================================
